---- MODULE Spec2Model ----
(***************************************************************************)
(* UnorderedMap<int, int> of leyk-csce221-assignment-unordered-map: a      *)
(* separate-chaining hash table with a fixed prime bucket count, a         *)
(* canonical head pointer and singly linked bucket chains.                 *)
(*                                                                         *)
(* The heap is an arena.  A node address is a number of Nodes, NULL is the *)
(* null pointer, and heap maps every address that new has handed out and   *)
(* delete has not taken back to the HashNode stored there.  A pointer to   *)
(* an address outside DOMAIN heap is dangling.                             *)
(*                                                                         *)
(* Undefined behaviour is recorded in ub: "null_deref" when a call reads   *)
(* through a null pointer, "use_after_free" when it reads or deletes       *)
(* through a dangling one.  Nothing is defined about the run from there    *)
(* on, so the model takes no further step and derives nothing from what    *)
(* might follow.                                                           *)
(***************************************************************************)
EXTENDS Integers, Sequences, FiniteSets, TLC

\* Bounds of the model: keys are 0..MaxKey, at most MaxNodes nodes are live
\* at a time, bucket-count hints are 0..MaxHint.
MaxKey == 4
MaxNodes == 3
MaxHint == 3

\* nullptr, and T{} for T = int.
NULL == 0
DefaultVal == 0

\* A mapped value other than T{}.  The table copies mapped values and never
\* inspects them, so two distinct values tell every store from every other.
OtherVal == 1

Keys == 0..MaxKey
Vals == {DefaultVal, OtherVal}
\* Node addresses.  Addresses are opaque to the program, so the model names
\* them once and for all: there is one per key, and new (new_node below)
\* hands out the address named after the key it is to hold whenever that
\* address is free.  States that differ only by a renaming of the live
\* addresses are thereby one state.
Nodes == 1..(MaxKey + 1)

\* arg is the argument of a call that is yet to be made: the bucket-count
\* hint of a table under construction, the string given to a hash function,
\* the graph given to a graph algorithm.  os is the text written to the
\* output stream.  head and tail are the sentinel nodes of a List, _root is
\* the root pointer of a BinarySearchTree, c is the container of a
\* PriorityQueue; _size and heap serve whichever container the run is about.
\* other holds the members of a second UnorderedMap, the one that a copy or
\* a move has for its argument, whose nodes are in heap too.
VARIABLES _bucket_count, _buckets, _head, _size, heap, model, op, ret, ub, arg,
          os, head, tail, _root, c, other

data == <<_bucket_count, _buckets, _head, _size, heap>>
vars == <<_bucket_count, _buckets, _head, _size, heap, model, op, ret, ub, arg,
          os, head, tail, _root, c, other>>

\* The other containers of the repository, which a call on one container
\* leaves alone.
containers == <<head, tail, _root, c, other>>

\* The members of an UnorderedMap, with the model of what it holds.
Table(bucket_count, buckets, first, size, held) ==
    [_bucket_count |-> bucket_count, _buckets |-> buckets, _head |-> first,
     _size |-> size, model |-> held]

\* What other holds while there is no second table.
NoOther == Table(0, <<>>, NULL, 0, <<>>)

\* What the calls on a constructed table leave alone.
others == <<arg, os, containers>>

NoArg == <<>>

\* What the variables of the stream and of the other containers hold while a
\* run does not use them.
NoStream == os = ""

NoContainers ==
    /\ head = [next |-> NULL, prev |-> NULL]
    /\ tail = [next |-> NULL, prev |-> NULL]
    /\ _root = NULL
    /\ c = <<>>
    /\ other = NoOther

alloc == DOMAIN heap

----------------------------------------------------------------------------
\* Prime Sizer (primes.h): the smallest prime p with p >= max(n, 1).

IsPrime(p) == p >= 2 /\ \A d \in 2..(p - 1) : p % d # 0

RECURSIVE next_greater_prime(_)
next_greater_prime(n) ==
    IF IsPrime(n) THEN n ELSE next_greater_prime(n + 1)

----------------------------------------------------------------------------
\* Hashing and bucket selection.

\* std::hash<int>
_hash(key) == key

_range_hash(hash_code, bucket_count) == hash_code % bucket_count

_bucket(key) == _range_hash(_hash(key), _bucket_count)

----------------------------------------------------------------------------
\* Chain walks.  A walk stops at a null pointer and at a dangling one, and
\* takes at most Fuel steps (a chain of live nodes has at most MaxNodes).

Fuel == MaxNodes + 1

Last(s) == s[Len(s)]

SeqSet(s) == {s[i] : i \in 1..Len(s)}

\* The pointers a walk along next follows from n, in order.
RECURSIVE Chain(_, _, _)
Chain(h, n, fuel) ==
    IF n = NULL \/ fuel = 0 THEN <<>>
    ELSE IF n \notin DOMAIN h THEN <<n>>
    ELSE <<n>> \o Chain(h, h[n].next, fuel - 1)

\* A lookup that tests the head of the bucket and never follows next.
_find_walk_head_only(h, cur, key, fuel) ==
    IF cur = NULL \/ fuel = 0 THEN <<>> ELSE <<cur>>

\* The pointers _find dereferences: the chain up to and including the first
\* node whose key equals key.
RECURSIVE _find_walk(_, _, _, _)
_find_walk(h, cur, key, fuel) ==
    IF cur = NULL \/ fuel = 0 THEN <<>>
    ELSE IF cur \notin DOMAIN h THEN <<cur>>
    ELSE IF h[cur].key = key THEN <<cur>>
    ELSE <<cur>> \o _find_walk(h, h[cur].next, key, fuel - 1)

_find_path(key) == _find_walk(heap, _buckets[_bucket(key)], key, Fuel)

\* The node _find(key) returns a reference to, NULL when there is none.
_find(key) ==
    LET path == _find_path(key)
    IN  IF path # <<>> /\ Last(path) \in alloc /\ heap[Last(path)].key = key
        THEN Last(path)
        ELSE NULL

bucket_size(n) == Len(Chain(heap, _buckets[n], Fuel))

\* A scan that looks at the bucket right after the current one only.
next_bucket_head_adjacent(bk, currentIndex, bc) ==
    IF currentIndex >= bc THEN NULL ELSE bk[currentIndex]

\* basic_iterator::operator++: the scan of the later buckets ...
RECURSIVE next_bucket_head(_, _, _)
next_bucket_head(bk, currentIndex, bc) ==
    IF currentIndex >= bc THEN NULL
    ELSE IF bk[currentIndex] # NULL THEN bk[currentIndex]
    ELSE next_bucket_head(bk, currentIndex + 1, bc)

\* A step that never leaves the chain it is in.
iterator_inc_same_chain(p) == heap[p].next

\* A step from the node p that goes on to the later buckets and leaves out
\* the rest of p's chain.
iterator_inc_skip_chain(p) ==
    next_bucket_head(_buckets, _bucket(heap[p].key) + 1, _bucket_count)

\* A step that goes on from the entry after the next one.
iterator_inc_twice(p) ==
    LET once == IF heap[p].next # NULL THEN heap[p].next
                ELSE next_bucket_head(_buckets, _bucket(heap[p].key) + 1, _bucket_count)
    IN  IF once = NULL THEN NULL
        ELSE IF heap[once].next # NULL THEN heap[once].next
        ELSE next_bucket_head(_buckets, _bucket(heap[once].key) + 1, _bucket_count)

\* ... and the whole step from the node p.
iterator_inc(p) ==
    IF heap[p].next # NULL THEN heap[p].next
    ELSE next_bucket_head(_buckets, _bucket(heap[p].key) + 1, _bucket_count)

begin == _head

end == NULL

\* The nodes that for (it = begin(); it != end(); ++it) visits, in order.
RECURSIVE iterate(_, _)
iterate(p, fuel) ==
    IF p = end \/ fuel = 0 THEN <<>>
    ELSE IF p \notin alloc THEN <<p>>
    ELSE <<p>> \o iterate(iterator_inc(p), fuel - 1)

Iteration == iterate(begin, Fuel)

\* begin(n), end(n) and local_iterator::operator++.
local_begin(n) == _buckets[n]

local_end(n) == NULL

\* A local step that gives up after the first node.
local_inc_give_up(node) == NULL

local_inc(node) == IF heap[node].next = NULL THEN NULL ELSE heap[node].next

\* The nodes that for (it = begin(n); it != end(n); ++it) visits, in order.
RECURSIVE local_iterate(_, _, _)
local_iterate(n, node, fuel) ==
    IF node = local_end(n) \/ fuel = 0 THEN <<>>
    ELSE IF node \notin alloc THEN <<node>>
    ELSE <<node>> \o local_iterate(n, local_inc(node), fuel - 1)

LocalIteration(n) == local_iterate(n, local_begin(n), Fuel)

----------------------------------------------------------------------------
\* The calls.  op names the call made last and ret is what it returned: the
\* node of the iterator or reference, the bool of insert, the count of
\* erase(key), and the place in its chain (at, counted from 1, of len nodes)
\* of the node the call removed.  model is the mapping from keys to values
\* that the calls made so far describe.

NoRet == [node |-> NULL, flag |-> FALSE, count |-> 0, at |-> 0, len |-> 0]

Ret(node, flag, count) == [node |-> node, flag |-> flag, count |-> count, at |-> 0, len |-> 0]

Stop(tag) ==
    /\ ub' = tag
    /\ ret' = NoRet
    /\ UNCHANGED <<data, model>>

Without(m, key) == [k \in DOMAIN m \ {key} |-> m[k]]

With(m, key, val) == [k \in DOMAIN m \cup {key} |-> IF k = key THEN val ELSE m[k]]

\* new HashNode for a node that is to hold key: an address not in use.
new_node(key) ==
    CHOOSE n \in Nodes \ alloc :
        \/ n = key + 1
        \/ key + 1 \in alloc /\ \A m \in Nodes \ alloc : n <= m

\* The model's cap on the number of live nodes.
CanAllocate == Cardinality(alloc) < MaxNodes

\* A node that is stored without the link to the chain behind it.
construct_unlinked(h, n, key, val, next) ==
    [m \in DOMAIN h \cup {n} |->
        IF m = n THEN [key |-> key, val |-> val, next |-> NULL] ELSE h[m]]

\* The heap with the node (key, val, next) stored at address n.
construct(h, n, key, val, next) ==
    [m \in DOMAIN h \cup {n} |->
        IF m = n THEN [key |-> key, val |-> val, next |-> next] ELSE h[m]]

\* delete n.
delete(h, n) == [m \in DOMAIN h \ {n} |-> h[m]]

\* _size++ and _size--.
size_inc(size) == size + 1

\* A removal that forgets the counter.
size_dec_forgotten(size) == size

size_dec(size) == size - 1

\* A removal that cuts the chain off behind pred.
unlink_drop_tail(h, pred, eraseNode) == [h EXCEPT ![pred].next = NULL]

\* pred->next = eraseNode->next: eraseNode leaves the chain.
unlink(h, pred, eraseNode) == [h EXCEPT ![pred].next = h[eraseNode].next]

Init ==
    /\ \E hint \in 0..MaxHint : _bucket_count = next_greater_prime(hint)
    /\ _buckets = [i \in 0..(_bucket_count - 1) |-> NULL]
    /\ _head = NULL
    /\ _size = 0
    /\ heap = [n \in {} |-> 0]
    /\ model = [k \in {} |-> 0]
    /\ op = "construct"
    /\ ret = NoRet
    /\ ub = "none"
    /\ arg = NoArg
    /\ NoStream
    /\ NoContainers

\* What _find(key) reads through, and what a call that links a new node
\* reads through on top of that (_head->val in the head update).
FindTouched(key) == SeqSet(_find_path(key))

LinkTouched(key) == FindTouched(key) \cup (IF _head = NULL THEN {} ELSE {_head})

\* An insertion that grows the bucket array by one bucket.
_insert_into_bucket_growing(bucket, key, val) ==
    LET nodeToInsert == new_node(key)
    IN  /\ heap' = construct(heap, nodeToInsert, key, val, _buckets[bucket])
        /\ _bucket_count' = _bucket_count + 1
        /\ _buckets' = [i \in 0.._bucket_count |->
                           IF i = bucket THEN nodeToInsert
                           ELSE IF i < _bucket_count THEN _buckets[i]
                           ELSE NULL]
        /\ _size' = size_inc(_size)
        /\ _head' = nodeToInsert
        /\ ret' = Ret(nodeToInsert, TRUE, 0)

\* _insert_into_bucket: a new node holding (key, val) is linked in front of
\* the chain of bucket, and the canonical head is updated.
_insert_into_bucket(bucket, key, val) ==
    LET bucketHead == _buckets[bucket]
        nodeToInsert == new_node(key)
    IN  /\ heap' = construct(heap, nodeToInsert, key, val, bucketHead)
        /\ _buckets' = [_buckets EXCEPT ![bucket] = nodeToInsert]
        /\ _size' = size_inc(_size)
        /\ _head' = IF _head = NULL THEN nodeToInsert
                    ELSE IF _bucket(key) <= _bucket(heap[_head].key) THEN nodeToInsert
                    ELSE _head
        /\ ret' = Ret(nodeToInsert, TRUE, 0)
        /\ UNCHANGED _bucket_count

\* An insert that overwrites the value of a key that is already there.
insert_existing_overwrite(duplicateCand, val) ==
    /\ ret' = Ret(duplicateCand, FALSE, 0)
    /\ heap' = [heap EXCEPT ![duplicateCand].val = val]
    /\ UNCHANGED <<_bucket_count, _buckets, _head, _size, model, ub>>

\* The return of insert for a key that is already there: the value of the
\* argument is not applied.
insert_existing(duplicateCand, val) ==
    /\ ret' = Ret(duplicateCand, FALSE, 0)
    /\ UNCHANGED <<data, model, ub>>

\* insert(value_type&&)
insert_rv(key, val) ==
    /\ ub = "none"
    /\ op' = "insert"
    /\ UNCHANGED others
    /\ LET duplicateCand == _find(key)
       IN  IF ~(FindTouched(key) \subseteq alloc) THEN Stop("use_after_free")
           ELSE IF duplicateCand = NULL
           THEN IF ~(LinkTouched(key) \subseteq alloc) THEN Stop("use_after_free")
                ELSE /\ CanAllocate
                     /\ _insert_into_bucket(_bucket(key), key, val)
                     /\ model' = With(model, key, val)
                     /\ UNCHANGED ub
           ELSE insert_existing(duplicateCand, val)

\* insert(const value_type&), which repeats _insert_into_bucket inline
insert(key, val) ==
    /\ ub = "none"
    /\ op' = "insert"
    /\ UNCHANGED others
    /\ LET duplicateCand == _find(key)
       IN  IF ~(FindTouched(key) \subseteq alloc) THEN Stop("use_after_free")
           ELSE IF duplicateCand = NULL
           THEN IF ~(LinkTouched(key) \subseteq alloc) THEN Stop("use_after_free")
                ELSE LET bucketHead == _buckets[_bucket(key)]
                         nodeToInsert == new_node(key)
                     IN  /\ CanAllocate
                         /\ heap' = construct(heap, nodeToInsert, key, val, bucketHead)
                         /\ _buckets' = [_buckets EXCEPT ![_bucket(key)] = nodeToInsert]
                         /\ _size' = size_inc(_size)
                         /\ _head' = IF _head = NULL THEN nodeToInsert
                                     ELSE IF _bucket(key) <= _bucket(heap[_head].key)
                                          THEN nodeToInsert
                                     ELSE _head
                         /\ ret' = Ret(nodeToInsert, TRUE, 0)
                         /\ model' = With(model, key, val)
                         /\ UNCHANGED <<_bucket_count, ub>>
           ELSE insert_existing(duplicateCand, val)

\* find(key)
find(key) ==
    /\ ub = "none"
    /\ op' = "find"
    /\ UNCHANGED others
    /\ IF ~(FindTouched(key) \subseteq alloc) THEN Stop("use_after_free")
       ELSE /\ ret' = Ret(_find(key), FALSE, 0)
            /\ UNCHANGED <<data, model, ub>>

\* operator[](key); ret.node is the node whose value the returned reference
\* denotes.
subscript(key) ==
    /\ ub = "none"
    /\ op' = "subscript"
    /\ UNCHANGED others
    /\ LET foundNode == _find(key)
       IN  IF ~(FindTouched(key) \subseteq alloc) THEN Stop("use_after_free")
           ELSE IF foundNode = NULL
           THEN IF ~(LinkTouched(key) \subseteq alloc) THEN Stop("use_after_free")
                ELSE LET insertNde == new_node(key)
                         idx == _bucket(key)
                     IN  /\ CanAllocate
                         /\ heap' = construct(heap, insertNde, key, DefaultVal, _buckets[idx])
                         /\ _buckets' = [_buckets EXCEPT ![idx] = insertNde]
                         /\ _size' = size_inc(_size)
                         /\ _head' = IF _head = NULL THEN insertNde
                                     ELSE IF _bucket(key) <= _bucket(heap[_head].key)
                                          THEN insertNde
                                     ELSE _head
                         /\ ret' = Ret(insertNde, FALSE, 0)
                         /\ model' = With(model, key, DefaultVal)
                         /\ UNCHANGED <<_bucket_count, ub>>
           ELSE /\ ret' = Ret(foundNode, FALSE, 0)
                /\ UNCHANGED <<data, model, ub>>

\* m[key] = val, the second half: the store of val through the reference
\* that operator[] has just returned.
store(val) ==
    /\ ub = "none"
    /\ op = "subscript"
    /\ op' = "store"
    /\ UNCHANGED others
    /\ heap' = [heap EXCEPT ![ret.node].val = val]
    /\ model' = With(model, heap[ret.node].key, val)
    /\ UNCHANGED <<_bucket_count, _buckets, _head, _size, ret, ub>>

\* A search that takes the head of the chain for the predecessor.
pred_index_first(chain, i, eraseNode) == IF Len(chain) >= 2 THEN 1 ELSE 0

\* The place (counted from 1) of the first node of chain whose successor is
\* wanted(successor), 0 when there is none: the loops of the two erase
\* overloads that look for the predecessor of the node to remove.
RECURSIVE pred_index(_, _, _)
pred_index(chain, i, eraseNode) ==
    IF i >= Len(chain) THEN 0
    ELSE IF chain[i + 1] = eraseNode THEN i
    ELSE pred_index(chain, i + 1, eraseNode)

\* erase(iterator pos), pos being end() or an iterator to a live node
erase_pos(pos) ==
    /\ ub = "none"
    /\ pos = end \/ pos \in alloc
    /\ op' = "erase_pos"
    /\ UNCHANGED others
    /\ IF pos = end
       THEN /\ ret' = Ret(end, FALSE, 0)
            /\ UNCHANGED <<data, model, ub>>
       ELSE LET eraseNode == pos
                idx == _bucket(heap[pos].key)
                curNode == _buckets[idx]
                chain == Chain(heap, curNode, Fuel)
                it == iterator_inc(eraseNode)
            IN  IF eraseNode = curNode
                THEN /\ _buckets' = [_buckets EXCEPT ![idx] = heap[eraseNode].next]
                     /\ _head' = IF eraseNode = _head THEN it ELSE _head
                     /\ heap' = delete(heap, eraseNode)
                     /\ _size' = size_dec(_size)
                     /\ ret' = [Ret(it, FALSE, 0) EXCEPT !.at = 1, !.len = Len(chain)]
                     /\ model' = Without(model, heap[eraseNode].key)
                     /\ UNCHANGED <<_bucket_count, ub>>
                ELSE IF ~(SeqSet(chain) \subseteq alloc) THEN Stop("use_after_free")
                ELSE LET p == pred_index(chain, 1, eraseNode)
                     IN  IF p # 0
                         THEN /\ heap' = delete(unlink(heap, chain[p], eraseNode), eraseNode)
                              /\ _size' = size_dec(_size)
                              /\ ret' = [Ret(it, FALSE, 0) EXCEPT !.at = p + 1,
                                                                 !.len = Len(chain)]
                              /\ model' = Without(model, heap[eraseNode].key)
                              /\ UNCHANGED <<_bucket_count, _buckets, _head, ub>>
                         ELSE /\ ret' = Ret(end, FALSE, 0)
                              /\ UNCHANGED <<data, model, ub>>

\* A search that finds no key behind the head of a chain.
key_index_not_found(h, chain, i, key) == 0

\* The place (counted from 1) of the first node of chain, after the first,
\* whose key is key; 0 when there is none.
RECURSIVE key_index(_, _, _, _)
key_index(h, chain, i, key) ==
    IF i > Len(chain) THEN 0
    ELSE IF h[chain[i]].key = key THEN i
    ELSE key_index(h, chain, i + 1, key)

\* erase(const Key& key)
erase_key(key) ==
    /\ ub = "none"
    /\ op' = "erase"
    /\ UNCHANGED others
    /\ LET bucketIndex == _bucket(key)
           currentNode == _buckets[bucketIndex]
           chain == Chain(heap, currentNode, Fuel)
       IN  IF currentNode = NULL THEN Stop("null_deref")
           ELSE IF currentNode \notin alloc THEN Stop("use_after_free")
           ELSE IF key = heap[currentNode].key
           THEN LET it == iterator_inc(currentNode)
                IN  /\ _buckets' = [_buckets EXCEPT ![bucketIndex] = heap[currentNode].next]
                    /\ _head' = IF _head = currentNode THEN it ELSE _head
                    /\ heap' = delete(heap, currentNode)
                    /\ _size' = size_dec(_size)
                    /\ ret' = [Ret(NULL, FALSE, 1) EXCEPT !.at = 1, !.len = Len(chain)]
                    /\ model' = Without(model, key)
                    /\ UNCHANGED <<_bucket_count, ub>>
           ELSE IF ~(SeqSet(chain) \subseteq alloc) THEN Stop("use_after_free")
           ELSE LET i == key_index(heap, chain, 2, key)
                IN  IF i # 0
                    THEN LET eraseNode == chain[i]
                         IN  /\ heap' = delete(unlink(heap, chain[i - 1], eraseNode), eraseNode)
                             /\ _size' = size_dec(_size)
                             /\ ret' = [Ret(NULL, FALSE, 1) EXCEPT !.at = i,
                                                                  !.len = Len(chain)]
                             /\ model' = Without(model, key)
                             /\ UNCHANGED <<_bucket_count, _buckets, _head, ub>>
                    ELSE /\ ret' = Ret(NULL, FALSE, 0)
                         /\ UNCHANGED <<data, model, ub>>

\* The nodes clear() deletes: every chain, bucket by bucket.
RECURSIVE all_chains(_, _, _, _)
all_chains(h, bk, index, bc) ==
    IF index >= bc THEN <<>>
    ELSE Chain(h, bk[index], Fuel) \o all_chains(h, bk, index + 1, bc)

\* clear()
clear ==
    /\ ub = "none"
    /\ op' = "clear"
    /\ UNCHANGED others
    /\ IF _size > 0
       THEN LET dead == all_chains(heap, _buckets, 0, _bucket_count)
            IN  IF ~(SeqSet(dead) \subseteq alloc) THEN Stop("use_after_free")
                ELSE /\ heap' = [m \in DOMAIN heap \ SeqSet(dead) |-> heap[m]]
                     /\ _size' = _size - Len(dead)
                     /\ ret' = NoRet
                     /\ model' = [k \in {} |-> 0]
                     /\ UNCHANGED <<_bucket_count, _buckets, _head, ub>>
       ELSE /\ ret' = NoRet
            /\ model' = [k \in {} |-> 0]
            /\ UNCHANGED <<data, ub>>

----------------------------------------------------------------------------
\* Spec: a constructed table under every call.  SpecNoClear: the tables
\* reached by insert, find, operator[] and the two erase overloads alone.

NextNoClear ==
    \/ \E key \in Keys, val \in Vals : insert(key, val)
    \/ \E key \in Keys, val \in Vals : insert_rv(key, val)
    \/ \E key \in Keys : find(key)
    \/ \E key \in Keys : subscript(key)
    \/ \E val \in Vals : store(val)
    \/ \E pos \in Nodes \cup {NULL} : erase_pos(pos)
    \/ \E key \in Keys : erase_key(key)

SpecNoClear == Init /\ [][NextNoClear]_vars

Next == NextNoClear \/ clear

Spec == Init /\ [][Next]_vars

\* ~UnorderedMap(): clear(), delete[] _buckets, and the three members that
\* are reset.  _head is left as it is.
destructor ==
    /\ ub = "none"
    /\ op # "destructor"
    /\ op' = "destructor"
    /\ UNCHANGED others
    /\ \A dead \in {IF _size > 0 THEN all_chains(heap, _buckets, 0, _bucket_count)
                   ELSE <<>>} :
          IF ~(SeqSet(dead) \subseteq alloc) THEN Stop("use_after_free")
          ELSE /\ heap' = [m \in DOMAIN heap \ SeqSet(dead) |-> heap[m]]
               /\ _bucket_count' = 0
               /\ _buckets' = <<>>
               /\ _size' = 0
               /\ ret' = NoRet
               /\ model' = [k \in {} |-> 0]
               /\ UNCHANGED <<_head, ub>>

\* SpecLifetime: a table under every call, up to and with its destruction.
NextLifetime ==
    \/ op # "destructor" /\ Next
    \/ destructor

SpecLifetime == Init /\ [][NextLifetime]_vars

----------------------------------------------------------------------------
\* Two tables: the copy and the move constructors and assignments.  The
\* members of *this are the variables, those of the argument are in other,
\* and the nodes of both are in heap.

this == Table(_bucket_count, _buckets, _head, _size, model)

\* The members of *this become those of the table t.
become(t) ==
    /\ _bucket_count' = t._bucket_count
    /\ _buckets' = t._buckets
    /\ _head' = t._head
    /\ _size' = t._size
    /\ model' = t.model

\* new HashNode *[bucket_count]()
new_buckets(bucket_count) == [i \in 0..(bucket_count - 1) |-> NULL]

\* new HashNode on the heap h for a node that is to hold key.
new_node_in(h, key) ==
    CHOOSE n \in Nodes \ DOMAIN h :
        \/ n = key + 1
        \/ key + 1 \in DOMAIN h /\ \A m \in Nodes \ DOMAIN h : n <= m

\* insert(const value_type&) on the table t, whose nodes are in h: the heap
\* and the table afterwards.
insert_into(h, t, key, val) ==
    LET bucket == _range_hash(_hash(key), t._bucket_count)
        bucketHead == t._buckets[bucket]
        nodeToInsert == new_node_in(h, key)
    IN  IF \E n \in SeqSet(Chain(h, bucketHead, Fuel)) : h[n].key = key
        THEN [heap |-> h, table |-> t]
        ELSE [heap |-> construct(h, nodeToInsert, key, val, bucketHead),
              table |-> Table(t._bucket_count,
                              [t._buckets EXCEPT ![bucket] = nodeToInsert],
                              IF t._head = NULL THEN nodeToInsert
                              ELSE IF bucket <= _range_hash(_hash(h[t._head].key),
                                                            t._bucket_count)
                              THEN nodeToInsert
                              ELSE t._head,
                              size_inc(t._size),
                              With(t.model, key, val))]

\* A loop that copies the first node of the source and leaves the rest.
copy_loop_once(h, t, nodes) ==
    IF nodes = <<>> THEN [heap |-> h, table |-> t]
    ELSE insert_into(h, t, h[Head(nodes)].key, h[Head(nodes)].val)

\* The loops of the copy constructor and of the copy assignment: insert of
\* the value of every node of the source, bucket after bucket and every
\* chain from its head on.
RECURSIVE copy_loop(_, _, _)
copy_loop(h, t, nodes) ==
    IF nodes = <<>> THEN [heap |-> h, table |-> t]
    ELSE LET step == insert_into(h, t, h[Head(nodes)].key, h[Head(nodes)].val)
         IN  copy_loop(step.heap, step.table, Tail(nodes))

\* What clear() deletes when the destructor of the table t calls it.
destructor_deletes(h, t) ==
    IF t._size > 0 THEN all_chains(h, t._buckets, 0, t._bucket_count) ELSE <<>>

two_frame == UNCHANGED <<arg, os, head, tail, _root, c>>

\* The rebuild of *this from other on the heap h, which the copy
\* constructor and the copy assignment share.
copy_body(h) ==
    \A nodes \in {all_chains(h, other._buckets, 0, other._bucket_count)} :
        IF ~(SeqSet(nodes) \subseteq DOMAIN h)
        THEN Stop("use_after_free")
        ELSE /\ Cardinality(Nodes \ DOMAIN h) >= Len(nodes)
             /\ \E done \in {copy_loop(h, Table(other._bucket_count,
                                                 new_buckets(other._bucket_count),
                                                 NULL, 0, <<>>), nodes)} :
                   /\ heap' = done.heap
                   /\ become(done.table)
             /\ ret' = NoRet
             /\ UNCHANGED ub

\* UnorderedMap(const UnorderedMap &other): the table that the calls were
\* made on so far is the argument, and *this is the new table.
copy_construct ==
    /\ ub = "none"
    /\ other = NoOther
    /\ op \notin {"copy_construct", "move_construct"}
    /\ op' = "copy_construct"
    /\ other' = this
    /\ two_frame
    /\ \A nodes \in {all_chains(heap, _buckets, 0, _bucket_count)} :
          IF ~(SeqSet(nodes) \subseteq alloc)
          THEN Stop("use_after_free")
          ELSE /\ 2 * Len(nodes) <= Cardinality(Nodes)
               /\ \E done \in {copy_loop(heap, Table(_bucket_count,
                                                      new_buckets(_bucket_count),
                                                      NULL, 0, <<>>), nodes)} :
                     /\ heap' = done.heap
                     /\ become(done.table)
               /\ ret' = NoRet
               /\ UNCHANGED ub

\* operator=(const UnorderedMap &other), other being another table.
copy_assign ==
    /\ ub = "none"
    /\ other # NoOther
    /\ op' = "copy_assign"
    /\ other' = other
    /\ two_frame
    /\ \A dead \in {destructor_deletes(heap, this)} :
          IF ~(SeqSet(dead) \subseteq alloc)
          THEN Stop("use_after_free")
          ELSE copy_body([m \in alloc \ SeqSet(dead) |-> heap[m]])

\* A _move_content that leaves the head of the source as it was.
_move_content_keeping_head(src) ==
    [src |-> Table(src._bucket_count, new_buckets(src._bucket_count), src._head, 0, <<>>),
     dst |-> src]

\* _move_content(src, dst): the two tables afterwards.
_move_content(src) ==
    [src |-> Table(src._bucket_count, new_buckets(src._bucket_count), NULL, 0, <<>>),
     dst |-> src]

\* UnorderedMap(UnorderedMap &&other): the table that the calls were made
\* on so far is the argument, and *this is the new table.
move_construct ==
    /\ ub = "none"
    /\ other = NoOther
    /\ op \notin {"copy_construct", "move_construct"}
    /\ op' = "move_construct"
    /\ \E moved \in {_move_content(this)} :
          /\ become(moved.dst)
          /\ other' = moved.src
    /\ ret' = NoRet
    /\ UNCHANGED <<heap, ub>>
    /\ two_frame

\* operator=(UnorderedMap &&other), other being another table.
move_assign ==
    /\ ub = "none"
    /\ other # NoOther
    /\ op' = "move_assign"
    /\ two_frame
    /\ \A dead \in {destructor_deletes(heap, this)} :
          IF ~(SeqSet(dead) \subseteq alloc)
          THEN Stop("use_after_free") /\ other' = other
          ELSE /\ heap' = [m \in alloc \ SeqSet(dead) |-> heap[m]]
               /\ \E moved \in {_move_content(other)} :
                     /\ become(moved.dst)
                     /\ other' = moved.src
               /\ ret' = NoRet
               /\ UNCHANGED ub

\* The caller turns to the other table: the calls that follow are made on
\* what was the argument, and what was *this is the argument of a later
\* copy or move.
turn ==
    /\ ub = "none"
    /\ other # NoOther
    /\ op' = "turn"
    /\ become(other)
    /\ other' = this
    /\ ret' = NoRet
    /\ UNCHANGED <<heap, ub>>
    /\ two_frame

NextCopy ==
    \/ \E key \in Keys, val \in Vals : insert(key, val)
    \/ \E key \in Keys : erase_key(key)
    \/ copy_construct
    \/ copy_assign
    \/ move_construct
    \/ move_assign
    \/ turn

SpecCopy == Init /\ [][NextCopy]_vars

\* SpecDrain: a caller that fills a constructed table by inserts and then
\* takes the live keys out one at a time with erase(key), in any order, and
\* goes on for as long as a key is live.
Filling == op \in {"construct", "insert"}

NextDrain ==
    \/ \E key \in Keys, val \in Vals : Filling /\ insert(key, val)
    \/ \E key \in Keys, val \in Vals : Filling /\ insert_rv(key, val)
    \/ \E key \in DOMAIN model : erase_key(key)

SpecDrain ==
    /\ Init
    /\ [][NextDrain]_vars
    /\ WF_vars(\E key \in DOMAIN model : erase_key(key))

----------------------------------------------------------------------------
\* SpecConstruct: the constructor, from a bucket-count hint to a table.

\* The largest bucket-count hint.
MaxRequested == 60

\* What the variables of the table hold while there is no table.
NoTable ==
    /\ _bucket_count = 0
    /\ _buckets = <<>>
    /\ _head = NULL
    /\ _size = 0
    /\ heap = [n \in {} |-> 0]
    /\ model = [k \in {} |-> 0]
    /\ ret = NoRet
    /\ ub = "none"

InitConstruct ==
    /\ NoTable
    /\ NoStream
    /\ NoContainers
    /\ op = "none"
    /\ arg \in 0..MaxRequested

\* A constructor that takes the hint for the bucket count as it is, two
\* buckets at least.
UnorderedMap_unsized ==
    /\ op = "none"
    /\ op' = "construct"
    /\ _head' = NULL
    /\ _bucket_count' = IF arg < 2 THEN 2 ELSE arg
    /\ _buckets' = [i \in 0..((IF arg < 2 THEN 2 ELSE arg) - 1) |-> NULL]
    /\ _size' = 0
    /\ UNCHANGED <<heap, model, ret, ub, others>>

\* explicit UnorderedMap(size_type bucket_count, ...), bucket_count being arg
UnorderedMap ==
    /\ op = "none"
    /\ op' = "construct"
    /\ _head' = NULL
    /\ _bucket_count' = next_greater_prime(arg)
    /\ _buckets' = [i \in 0..(next_greater_prime(arg) - 1) |-> NULL]
    /\ _size' = 0
    /\ UNCHANGED <<heap, model, ret, ub, others>>

NextConstruct == UnorderedMap

SpecConstruct == InitConstruct /\ [][NextConstruct]_vars

----------------------------------------------------------------------------
\* size_t arithmetic (hash_functions.cpp).  A size_t is 64 bits wide; it is
\* held as its eight bytes, the least significant first, and +, *, ^ and %
\* are computed byte by byte, + and * dropping what does not fit in 64 bits.

Zero == [i \in 1..8 |-> 0]

\* The size_t of a number below 256.
Small(n) == [i \in 1..8 |-> IF i = 1 THEN n ELSE 0]

\* The one element of a set of one element.  An operand is an element of
\* such a set wherever it is to be computed once and used many times.
The(S) == CHOOSE v \in S : TRUE

RECURSIVE AddFrom(_, _, _, _)
AddFrom(a, b, i, carry) ==
    IF i > 8 THEN <<>>
    ELSE The({<<t % 256>> \o AddFrom(a, b, i + 1, t \div 256) : t \in {a[i] + b[i] + carry}})

\* a + b
Add(a, b) == The({AddFrom(x, y, 1, 0) : x \in {a}, y \in {b}})

RECURSIVE SubFrom(_, _, _, _)
SubFrom(a, b, i, borrow) ==
    IF i > 8 THEN <<>>
    ELSE The({IF t < 0 THEN <<t + 256>> \o SubFrom(a, b, i + 1, 1)
                       ELSE <<t>> \o SubFrom(a, b, i + 1, 0) : t \in {a[i] - b[i] - borrow}})

\* a - b
Sub(a, b) == The({SubFrom(x, y, 1, 0) : x \in {a}, y \in {b}})

RECURSIVE LessFrom(_, _, _)
LessFrom(a, b, i) ==
    IF i = 0 THEN FALSE
    ELSE IF a[i] # b[i] THEN a[i] < b[i]
    ELSE LessFrom(a, b, i - 1)

\* a < b
Less(a, b) == \E x \in {a}, y \in {b} : LessFrom(x, y, 8)

RECURSIVE MulByteFrom(_, _, _, _)
MulByteFrom(a, d, i, carry) ==
    IF i > 8 THEN <<>>
    ELSE The({<<t % 256>> \o MulByteFrom(a, d, i + 1, t \div 256) : t \in {a[i] * d + carry}})

\* a * 256^k
ShiftBytes(a, k) == The({[i \in 1..8 |-> IF i <= k THEN 0 ELSE x[i - k]] : x \in {a}})

RECURSIVE MulFrom(_, _, _)
MulFrom(a, b, i) ==
    IF i > 8 THEN Zero
    ELSE Add(ShiftBytes(MulByteFrom(a, b[i], 1, 0), i - 1), MulFrom(a, b, i + 1))

\* a * b
Mul(a, b) == The({MulFrom(x, y, 1) : x \in {a}, y \in {b}})

RECURSIVE XorBits(_, _, _)
XorBits(x, y, bits) ==
    IF bits = 0 THEN 0
    ELSE ((x + y) % 2) + 2 * XorBits(x \div 2, y \div 2, bits - 1)

\* a ^ b
Xor(a, b) == The({[i \in 1..8 |-> XorBits(x[i], y[i], 8)] : x \in {a}, y \in {b}})

RECURSIVE ModFrom(_, _)
ModFrom(a, m) ==
    IF Less(a, m) THEN a
    ELSE IF m[8] >= 128 THEN Sub(a, m)
    ELSE The({IF Less(a, twice) THEN Sub(a, m)
              ELSE The({IF Less(r, m) THEN r ELSE Sub(r, m) : r \in {ModFrom(a, twice)}})
                 : twice \in {Add(m, m)}})

\* a % m, for m > 0
Mod(a, m) == The({ModFrom(x, y) : x \in {a}, y \in {m}})

\* The conversion of a char to size_t, the char holding the byte b of the
\* string.  Whether plain char is signed is up to the build; where it is, a
\* byte above 127 is a negative char, and its conversion sets every higher
\* bit.
to_size_t(b, char_is_signed) ==
    IF char_is_signed /\ b >= 128 THEN [i \in 1..8 |-> IF i = 1 THEN b ELSE 255]
    ELSE Small(b)

\* 3298534883309ul
PolynomialModulus == <<237, 255, 255, 255, 255, 2, 0, 0>>

\* 0xCBF29CE484222325
FnvOffsetBasis == <<37, 35, 34, 132, 228, 156, 242, 203>>

\* 0x00000100000001B3
FnvPrime == <<179, 1, 0, 0, 0, 1, 0, 0>>

\* The loop of polynomial_rolling_hash from the i-th char of str on.
RECURSIVE polynomial_loop(_, _, _, _, _)
polynomial_loop(str, i, hash, p, char_is_signed) ==
    IF i > Len(str) THEN hash
    ELSE The({polynomial_loop(str, i + 1, hash_next, p_next, char_is_signed) :
                  hash_next \in {Add(hash, Mul(to_size_t(str[i], char_is_signed), p))},
                  p_next \in {Mod(Mul(p, Small(19)), PolynomialModulus)}})

polynomial_rolling_hash(str, char_is_signed) ==
    polynomial_loop(str, 1, Zero, Small(1), char_is_signed)

\* The loop of fnv1a_hash from the i-th char of str on.
RECURSIVE fnv1a_loop(_, _, _, _)
fnv1a_loop(str, i, hash, char_is_signed) ==
    IF i > Len(str) THEN hash
    ELSE The({fnv1a_loop(str, i + 1, hash_next, char_is_signed) :
                  hash_next \in {Mul(Xor(hash, to_size_t(str[i], char_is_signed)), FnvPrime)}})

fnv1a_hash(str, char_is_signed) == fnv1a_loop(str, 1, FnvOffsetBasis, char_is_signed)

\* SpecHash: a string is hashed by one of the two functions.  The strings
\* are all strings of at most MaxShortLen bytes out of 'z' and 0xC3 (the
\* first byte of a two-byte UTF-8 character), and the runs of at most
\* MaxRunLen bytes 'z'.
MaxShortLen == 3
MaxRunLen == 10

Bytes == {122, 195}

Strings ==
    UNION {[1..n -> Bytes] : n \in 0..MaxShortLen}
        \cup {[i \in 1..n |-> 122] : n \in 0..MaxRunLen}

InitHash ==
    /\ NoTable
    /\ NoStream
    /\ NoContainers
    /\ op = "none"
    /\ arg \in [str : Strings, char_is_signed : BOOLEAN]

call_polynomial_rolling_hash ==
    /\ op = "none"
    /\ op' = "polynomial_rolling_hash"
    /\ ret' = polynomial_rolling_hash(arg.str, arg.char_is_signed)
    /\ UNCHANGED <<data, model, ub, others>>

call_fnv1a_hash ==
    /\ op = "none"
    /\ op' = "fnv1a_hash"
    /\ ret' = fnv1a_hash(arg.str, arg.char_is_signed)
    /\ UNCHANGED <<data, model, ub, others>>

NextHash ==
    \/ call_polynomial_rolling_hash
    \/ call_fnv1a_hash

SpecHash == InitHash /\ [][NextHash]_vars

----------------------------------------------------------------------------
\* The claims.

LiveKeys == DOMAIN model

RECURSIVE SumBucketSizes(_)
SumBucketSizes(i) ==
    IF i >= _bucket_count THEN 0 ELSE bucket_size(i) + SumBucketSizes(i + 1)

\* C1: after any sequence of insert, operator[], erase(key) and
\* erase(iterator) calls, size() is the number of distinct live keys, and
\* that number is the sum of bucket_size(i) over all bucket indices i.
C1_SizeCountsLiveKeys ==
    /\ _size = Cardinality(LiveKeys)
    /\ _size = SumBucketSizes(0)

\* A table of two colliding entries, left by an erase(iterator) that took a
\* third entry out of it.
C1_Witness ==
    /\ op = "erase_pos"
    /\ ret.len > 0
    /\ _size = 2
    /\ \E i \in DOMAIN _buckets : bucket_size(i) = 2

\* C2: in every state reached by insert, operator[] and erase calls, find(k)
\* denotes, for a live key k, the entry with key k that holds the last value
\* associated with k, and is end() for every key that is not live.
C2_FindYieldsLastValue ==
    \A k \in Keys :
        IF k \in LiveKeys
        THEN /\ _find(k) # end
             /\ heap[_find(k)].key = k
             /\ heap[_find(k)].val = model[k]
        ELSE _find(k) = end

\* find has just returned the last node of a chain of three, whose value is
\* not the default.
C2_Witness ==
    /\ op = "find"
    /\ ret.node # end
    /\ heap[ret.node].val = OtherVal
    /\ heap[ret.node].next = NULL
    /\ bucket_size(_bucket(heap[ret.node].key)) = 3

\* The chain of bucket i, and the canonical order: the chains of buckets
\* 0, 1, ... one after the other.
BucketChain(i) == Chain(heap, _buckets[i], Fuel)

Canonical == all_chains(heap, _buckets, 0, _bucket_count)

Remove(s, n) == SelectSeq(s, LAMBDA m : m # n)

\* C3: insert of a key that is already live returns an iterator to the
\* existing entry and false, and changes nothing: not the stored value, not
\* size(), not a bucket chain, not begin().
C3_DuplicateInsertChangesNothing ==
    [][\A k \in IF op' = "insert" THEN LiveKeys ELSE {}, v \in Vals :
          (insert(k, v) \/ insert_rv(k, v)) =>
              /\ ret'.flag = FALSE
              /\ ret'.node = _find(k)
              /\ heap[ret'.node].key = k
              /\ heap' = heap
              /\ _buckets' = _buckets
              /\ _size' = _size
              /\ begin' = begin]_vars

\* insert has returned false and an iterator to an entry that is not the head
\* of its chain.
C3_Witness ==
    /\ op = "insert"
    /\ ret.flag = FALSE
    /\ ret.node \in alloc
    /\ ret.node # _buckets[_bucket(heap[ret.node].key)]

\* C4: insert of a key that is not live returns true and an iterator to a new
\* entry holding that key and value, adds one to size(), and puts the new node
\* in front of the chain of bucket hash(key) mod bucket_count(), the previous
\* chain following it unchanged; every other chain is unchanged.
C4_InsertNewKey ==
    [][\A k \in IF op' = "insert" THEN Keys \ LiveKeys ELSE {}, v \in Vals :
          (insert(k, v) \/ insert_rv(k, v)) =>
              /\ ub' = "none"
              /\ ret'.flag = TRUE
              /\ ret'.node \in alloc' \ alloc
              /\ heap'[ret'.node].key = k
              /\ heap'[ret'.node].val = v
              /\ _size' = _size + 1
              /\ BucketChain(_bucket(k))' = <<ret'.node>> \o BucketChain(_bucket(k))
              /\ \A i \in DOMAIN _buckets \ {_bucket(k)} : BucketChain(i)' = BucketChain(i)
              /\ \A m \in alloc : heap'[m] = heap[m]]_vars

\* C5: operator[](k) yields a reference to the value stored for k.  When k
\* is not live it first creates (k, default value) in front of k's bucket
\* chain and size() grows by one; when k is live it creates nothing and
\* size() is unchanged; a value written through the reference is the value a
\* later find(k) yields.
C5_SubscriptYieldsReference ==
    [][/\ \A k \in IF op' = "subscript" THEN Keys ELSE {} :
            subscript(k) =>
                /\ ub' = "none"
                /\ ret'.node \in alloc'
                /\ ret'.node = _find(k)'
                /\ heap'[ret'.node].key = k
                /\ IF k \in LiveKeys
                   THEN UNCHANGED data
                   ELSE /\ ret'.node \notin alloc
                        /\ heap'[ret'.node].val = DefaultVal
                        /\ _size' = _size + 1
                        /\ BucketChain(_bucket(k))' =
                               <<ret'.node>> \o BucketChain(_bucket(k))
       /\ \A v \in IF op' = "store" THEN Vals ELSE {} :
            store(v) =>
                \A k \in Keys :
                    k = heap[ret.node].key =>
                        /\ _find(k)' = ret.node
                        /\ heap'[_find(k)'].val = v]_vars

\* The pointers erase(key) must leave alone when it removes the node gone:
\* the order of every chain, and what find and iteration reach.
Kept(gone) ==
    /\ \A i \in DOMAIN _buckets : BucketChain(i)' = Remove(BucketChain(i), gone)
    /\ \A walk \in {SeqSet(Iteration')} :
          \A j \in LiveKeys \ {heap[gone].key} :
              \A n \in {_find(j)} :
                  /\ _find(j)' = n
                  /\ heap'[n].key = j
                  /\ heap'[n].val = heap[n].val
                  /\ n \in walk

\* C6: erase(k) for a live key k returns 1, takes one off size() and makes
\* find(k) == end(); every other live key stays findable with its value and
\* reachable by canonical iteration, and the order of the remaining nodes of
\* every chain is unchanged, wherever k sits in its chain.
C6_EraseLiveKey ==
    [][\A k \in IF op' = "erase" THEN LiveKeys ELSE {} :
          erase_key(k) =>
              /\ ub' = "none"
              /\ ret'.count = 1
              /\ _size' = _size - 1
              /\ _find(k)' = end
              /\ \A gone \in {_find(k)} : Kept(gone)]_vars

\* erase(key) has removed the middle node of a chain of three.
C6_Witness ==
    /\ op = "erase"
    /\ ret.count = 1
    /\ ret.at = 2
    /\ ret.len = 3

\* C7: erase(k) for a key k that is not live returns 0 and leaves the table
\* unchanged, without faulting, in every reachable state of the table.
C7_EraseAbsentKey ==
    [][\A k \in IF op' = "erase" THEN Keys \ LiveKeys ELSE {} :
          erase_key(k) =>
              /\ ub' = "none"
              /\ ret'.count = 0
              /\ UNCHANGED data]_vars

\* The node that follows pos in the canonical order, end() after the last.
FollowerIn(order, pos) ==
    LET place == CHOOSE i \in 1..Len(order) : order[i] = pos
    IN  IF place < Len(order) THEN order[place + 1] ELSE end

Follower(pos) == CHOOSE n \in {FollowerIn(order, pos) : order \in {Canonical}} : TRUE

\* C8: erase(pos) for an iterator to a live node removes exactly that node
\* and returns an iterator to the node that followed pos in canonical order
\* before the call, end() if pos was the last.
C8_ErasePosition ==
    [][\A pos \in IF op' = "erase_pos" THEN alloc ELSE {} :
          erase_pos(pos) =>
              /\ ub' = "none"
              /\ ret'.node = Follower(pos)
              /\ _size' = _size - 1
              /\ alloc' = alloc \ {pos}
              /\ \A k \in Keys : k = heap[pos].key => _find(k)' = end
              /\ \A order \in {Canonical} : Canonical' = Remove(order, pos)
              /\ Kept(pos)]_vars

\* erase(iterator) has removed the last node of a chain of two and returned
\* the head of a later bucket.
C8_Witness ==
    /\ op = "erase_pos"
    /\ ret.at = 2
    /\ ret.len = 2
    /\ ret.node # end

\* C9: after clear() on any reachable table, size() == 0, begin() == end()
\* and bucket_count() is what it was.
C9_ClearEmptiesTable ==
    [][clear =>
          /\ ub' = "none"
          /\ _size' = 0
          /\ begin' = end
          /\ _bucket_count' = _bucket_count]_vars

\* C10: after clear() the table is a freshly constructed table of the same
\* bucket count, every chain empty, and no later call reads or frees a node
\* that clear() destroyed.
C10_ClearedTableIsFresh ==
    /\ op = "clear" =>
          /\ \A i \in DOMAIN _buckets : _buckets[i] = NULL
          /\ \A k \in Keys : _find_path(k) = <<>>
          /\ _head = NULL
          /\ _size = 0
          /\ alloc = {}
    /\ ub # "use_after_free"

\* A sequence of live nodes, no node twice.
LiveOnce(s) ==
    /\ SeqSet(s) \subseteq alloc
    /\ \A i, j \in 1..Len(s) : i # j => s[i] # s[j]

\* C11: in every state reached by insert, operator[] and erase calls, the
\* walk from begin() to end() ends after exactly size() steps and visits
\* every live entry exactly once.  The walk writes nothing but the iterator,
\* so a second walk over the same table is the same sequence.
C11_IterationVisitsEachOnce ==
    /\ Len(Iteration) = _size
    /\ Len(Iteration) < Fuel
    /\ LiveOnce(Iteration)
    /\ {heap[n].key : n \in SeqSet(Iteration)} = LiveKeys
    /\ \A n \in SeqSet(Iteration) : heap[n].val = model[heap[n].key]

\* An erase has left three buckets of which the first and the last hold an
\* entry, so the walk skips an empty bucket.
C11_Witness ==
    /\ op = "erase"
    /\ ret.count = 1
    /\ _bucket_count = 3
    /\ _buckets[0] # NULL
    /\ _buckets[1] = NULL
    /\ _buckets[2] # NULL
    /\ Len(Iteration) = 2

\* The head of the first non-empty bucket with an index above b, end() when
\* there is none.
LaterHead(b) ==
    IF \E i \in DOMAIN _buckets : i > b /\ BucketChain(i) # <<>>
    THEN LET i == CHOOSE i \in DOMAIN _buckets :
                     /\ i > b
                     /\ BucketChain(i) # <<>>
                     /\ \A j \in DOMAIN _buckets : (j > b /\ j < i) => BucketChain(j) = <<>>
         IN  BucketChain(i)[1]
    ELSE end

\* C12: canonical iteration yields the chains of buckets 0, 1, ...,
\* bucket_count() - 1 one after the other, each in chain order; ++ moves to
\* the chain successor when there is one, otherwise to the head of the next
\* non-empty bucket with a higher index, otherwise to end().
C12_IterationIsCanonicalOrder ==
    /\ LiveOnce(Iteration)
    /\ Iteration = Canonical
    /\ \A p \in SeqSet(Iteration) :
          iterator_inc(p) = IF heap[p].next # NULL THEN heap[p].next
                            ELSE LaterHead(_bucket(heap[p].key))

\* The head of the chain of the lowest-indexed bucket that holds a live
\* entry, end() when no entry is live.
LowestHead ==
    IF LiveKeys = {} THEN end
    ELSE LET b == CHOOSE b \in {_bucket(k) : k \in LiveKeys} :
                      \A k \in LiveKeys : b <= _bucket(k)
         IN  _buckets[b]

\* C14: after each insert, operator[], erase(key), erase(iterator) and
\* clear, begin() is the head node of the chain of the lowest-indexed
\* non-empty bucket, and begin() == end() exactly when no entry is live.
C14_HeadIsLowestBucketHead ==
    ub = "none" =>
        /\ begin = LowestHead
        /\ begin = end <=> LiveKeys = {}

\* C16: no insert, operator[], find, erase or clear call changes
\* bucket_count(), so bucket(k) is the same index hash(k) mod bucket_count()
\* for a key k in every state of the table's lifetime.
C16_BucketCountIsFixed ==
    [][/\ _bucket_count' = _bucket_count
       /\ \A k \in Keys :
             /\ _bucket(k)' = _bucket(k)
             /\ _bucket(k)' = _hash(k) % _bucket_count]_vars

\* A clear() that deleted the nodes of a table of three buckets.
C16_Witness ==
    /\ op = "clear"
    /\ ub = "none"
    /\ _bucket_count = 3
    /\ _head # NULL
    /\ alloc = {}

\* What a walk from begin(b) to end(b) must show in a single state ...
LocalWalkShowsBucket(b) ==
    /\ LiveOnce(LocalIteration(b))
    /\ {heap[n].key : n \in SeqSet(LocalIteration(b))} = {k \in LiveKeys : _bucket(k) = b}
    /\ Len(LocalIteration(b)) = bucket_size(b)
    /\ Len(LocalIteration(b)) < Fuel
    /\ local_begin(b) = local_end(b) <=> {k \in LiveKeys : _bucket(k) = b} = {}

\* ... and how a call may change it: a node that is new comes first, a node
\* that goes leaves the others in their order.
LocalWalkKeepsOrder(b) ==
    \/ LocalIteration(b)' = LocalIteration(b)
    \/ \E n \in Nodes \ alloc : LocalIteration(b)' = <<n>> \o LocalIteration(b)
    \/ \E n \in alloc : LocalIteration(b)' = Remove(LocalIteration(b), n)

\* C17: for every bucket index b, in every state reached by insert,
\* operator[] and erase, the walk from begin(b) with ++ until end(b) visits
\* exactly the live entries whose key hashes to b, each once, the most
\* recently inserted first, bucket_size(b) of them; begin(b) == end(b)
\* exactly when bucket b is empty.
C17_LocalIterationIsBucketChain ==
    /\ [](\A b \in DOMAIN _buckets : LocalWalkShowsBucket(b))
    /\ [][\A b \in DOMAIN _buckets : LocalWalkKeepsOrder(b)]_vars

\* An insert has put a third node in front of a bucket's chain while
\* another bucket is empty.
C17_Witness ==
    /\ op = "insert"
    /\ ret.flag = TRUE
    /\ \E b \in DOMAIN _buckets :
          /\ Len(LocalIteration(b)) = 3
          /\ LocalIteration(b)[1] = ret.node
    /\ \E b \in DOMAIN _buckets : local_begin(b) = local_end(b)

\* The part of the sequence s from its element x on.
From(s, x) ==
    IF x \in SeqSet(s)
    THEN SubSeq(s, CHOOSE i \in 1..Len(s) : s[i] = x, Len(s))
    ELSE <<>>

\* C18: when a canonical iterator is at a live node x and another live node
\* y is erased, by key or by iterator, the iterator still denotes x, with
\* its entry, and advancing it to end() visits exactly the nodes that remain
\* live after x in canonical order, each once.
C18_OtherIteratorsStayValid ==
    [][(op' \in {"erase", "erase_pos"} /\ alloc' # alloc) =>
          /\ ub' = "none"
          /\ \A y \in alloc \ alloc', order \in {Canonical'} :
                \A x \in alloc \ {y} :
                    /\ x \in alloc'
                    /\ heap'[x].key = heap[x].key
                    /\ heap'[x].val = heap[x].val
                    /\ \A walk \in {iterate(x, Fuel)'} :
                          /\ LiveOnce(walk)'
                          /\ walk = Remove(iterate(x, Fuel), y)
                          /\ walk = From(order, x)]_vars

\* erase(iterator) has removed the last node of a chain of three: the two
\* nodes before it are where an iterator may have been.
C18_Witness ==
    /\ op = "erase_pos"
    /\ ret.at = 3
    /\ ret.len = 3
    /\ _size = 2

\* C13: from any state reached by inserts, erasing the live keys one at a
\* time with erase(key), in whatever order, takes exactly one off size()
\* each time and ends in a state with size() == 0 and begin() == end().
C13_ErasingEveryKeyDrains ==
    /\ [][\A k \in IF op' = "erase" THEN LiveKeys ELSE {} :
             erase_key(k) =>
                 /\ ub' = "none"
                 /\ _size' = _size - 1]_vars
    /\ <>[](_size = 0 /\ begin = end /\ LiveKeys = {})

\* The last of the erases that emptied a table of three buckets.
C13_Witness ==
    /\ op = "erase"
    /\ ret.count = 1
    /\ _bucket_count = 3
    /\ _size = 0
    /\ begin = end

\* p is the smallest prime that is at least n.
SmallestPrimeFrom(p, n) ==
    /\ IsPrime(p)
    /\ p >= n
    /\ \A q \in n..(p - 1) : ~IsPrime(q)

\* C15: a table constructed with bucket-count hint n >= 0 has bucket_count()
\* equal to the smallest prime p with p >= max(n, 1): hint 5 gives 5 buckets,
\* hint 0 gives the smallest prime, and the constructor can be carried out
\* for every hint.
C15_BucketCountIsNextPrime ==
    /\ op = "none" => ENABLED UnorderedMap
    /\ op = "construct" =>
          /\ SmallestPrimeFrom(_bucket_count, IF arg > 1 THEN arg ELSE 1)
          /\ arg = 5 => _bucket_count = 5
          /\ arg = 0 => _bucket_count = 2
          /\ DOMAIN _buckets = 0..(_bucket_count - 1)
          /\ _size = 0
          /\ begin = end

\* The table constructed with hint 5.
C15_Witness ==
    /\ op = "construct"
    /\ arg = 5
    /\ _bucket_count = 5

\* (the sum over i of byte[i] * 19^i) mod 3298534883309, the bytes being
\* 0..255, reduced at every step.
RECURSIVE PolynomialSum(_, _, _, _)
PolynomialSum(str, i, sum, power) ==
    IF i > Len(str) THEN sum
    ELSE The({PolynomialSum(str, i + 1, sum_next, power_next) :
                  sum_next \in {Mod(Add(sum, Mul(Small(str[i]), power)), PolynomialModulus)},
                  power_next \in {Mod(Mul(power, Small(19)), PolynomialModulus)}})

\* C19: polynomial_rolling_hash(s) is (the sum over i of byte[i] * 19^i) mod
\* 3298534883309 for every string s, the accumulator being reduced at every
\* step, so the value returned is less than 3298534883309.
C19_PolynomialHashIsReduced ==
    op = "polynomial_rolling_hash" =>
        /\ ret = PolynomialSum(arg.str, 1, Zero, Small(1))
        /\ Less(ret, PolynomialModulus)

\* FNV-1a of a string: the offset basis for the empty string, and for a
\* string that ends with the byte b, (the FNV-1a of the bytes before b, XOR
\* b) times the FNV prime modulo 2^64.
RECURSIVE Fnv1a(_)
Fnv1a(str) ==
    IF str = <<>> THEN FnvOffsetBasis
    ELSE Mul(Xor(Fnv1a(SubSeq(str, 1, Len(str) - 1)), Small(Last(str))), FnvPrime)

\* C20: fnv1a_hash(s) is the value obtained from 0xCBF29CE484222325 by, for
\* each byte of s from left to right, XOR-ing the byte into the hash and then
\* multiplying by 0x100000001B3 modulo 2^64; the empty string hashes to the
\* offset basis.
C20_Fnv1aHashIsFnv1a ==
    op = "fnv1a_hash" =>
        /\ ret = Fnv1a(arg.str)
        /\ arg.str = <<>> => ret = FnvOffsetBasis

----------------------------------------------------------------------------
\* The canonical head on insertion and removal.

\* What a call that is given the key k, not live, does to begin(): it creates
\* a node, which is the canonical head afterwards when no entry was live or
\* k's bucket is not behind the bucket of the first node in canonical order,
\* and leaves begin() alone otherwise.
HeadAfterCreation(k) ==
    /\ ub' = "none"
    /\ ret'.node \in alloc' \ alloc
    /\ \A order \in {Canonical} :
          IF order = <<>> \/ _bucket(k) <= _bucket(heap[order[1]].key)
          THEN begin' = ret'.node
          ELSE begin' = begin

\* C29: when insert or operator[] creates a node in bucket b, begin() is the
\* new node afterwards if the table was empty or b is less than or equal to
\* the bucket index of the canonical head (the new node wins a tie), and
\* begin() is unchanged if b is greater.
C29_CreationUpdatesHead ==
    [][/\ \A k \in IF op' = "insert" THEN Keys \ LiveKeys ELSE {}, v \in Vals :
            (insert(k, v) \/ insert_rv(k, v)) => HeadAfterCreation(k)
       /\ \A k \in IF op' = "subscript" THEN Keys \ LiveKeys ELSE {} :
            subscript(k) => HeadAfterCreation(k)]_vars

\* C30: when erase(key) or erase(iterator) removes the node that is first in
\* canonical order, begin() is afterwards the node that was second (the chain
\* successor, else the head of the next non-empty bucket), end() when there
\* was no second; when it removes another node, begin() is unchanged.
C30_RemovalRepairsHead ==
    [][\A gone \in IF op' \in {"erase", "erase_pos"} THEN alloc \ alloc' ELSE {} :
          \A order \in {Canonical} :
              IF gone = order[1]
              THEN /\ begin' = IF Len(order) >= 2 THEN order[2] ELSE end
                   /\ Len(order) >= 2 =>
                         order[2] = IF heap[gone].next # NULL
                                    THEN heap[gone].next
                                    ELSE LaterHead(_bucket(heap[gone].key))
              ELSE begin' = begin]_vars

\* erase(iterator) has removed the canonical head, which was alone in its
\* bucket, and the head of a later bucket is the canonical head now.
C30_Witness ==
    /\ op = "erase_pos"
    /\ ret.at = 1
    /\ ret.len = 1
    /\ ret.node # end
    /\ ret.node = begin

----------------------------------------------------------------------------
\* print_map: the dump of a table, bucket by bucket.

\* What the while loop writes for the chain from node: "(key, value) " for
\* every node.  operator<< writes an int in decimal.
RECURSIVE print_chain(_, _, _)
print_chain(h, node, fuel) ==
    IF node = NULL \/ fuel = 0 THEN ""
    ELSE "(" \o ToString(h[node].key) \o ", " \o ToString(h[node].val) \o ") "
             \o print_chain(h, h[node].next, fuel - 1)

\* What the for loop writes from bucket on: the index, ": ", the chain, and
\* std::endl.
RECURSIVE print_buckets(_, _, _, _)
print_buckets(h, bk, bucket, bc) ==
    IF bucket >= bc THEN ""
    ELSE ToString(bucket) \o ": " \o print_chain(h, bk[bucket], Fuel) \o "\n"
             \o print_buckets(h, bk, bucket + 1, bc)

\* print_map(map, os), os being a stream nothing has been written to
print_map ==
    /\ ub = "none"
    /\ os = ""
    /\ op' = "print_map"
    /\ UNCHANGED <<arg, containers>>
    /\ IF ~(SeqSet(all_chains(heap, _buckets, 0, _bucket_count)) \subseteq alloc)
       THEN /\ Stop("use_after_free")
            /\ UNCHANGED os
       ELSE /\ os' = print_buckets(heap, _buckets, 0, _bucket_count)
            /\ ret' = NoRet
            /\ UNCHANGED <<data, model, ub>>

\* SpecDump: a caller that makes any calls on a constructed table and then
\* dumps the table into a fresh stream.
NextDump ==
    \/ os = "" /\ Next
    \/ print_map

SpecDump == Init /\ [][NextDump]_vars

\* The pairs (key, value) with a single space between one and the next.
RECURSIVE JoinPairs(_)
JoinPairs(pairs) ==
    IF pairs = <<>> THEN ""
    ELSE "(" \o ToString(pairs[1][1]) \o ", " \o ToString(pairs[1][2]) \o ")"
             \o (IF Len(pairs) = 1 THEN "" ELSE " " \o JoinPairs(Tail(pairs)))

\* The live entries of bucket i, in chain order.
LivePairs(i) ==
    LET chain == BucketChain(i)
    IN  [j \in 1..Len(chain) |-> <<heap[chain[j]].key, model[heap[chain[j]].key]>>]

\* The lines of the buckets from i on, each ended by a newline.
RECURSIVE DumpLines(_)
DumpLines(i) ==
    IF i >= _bucket_count THEN ""
    ELSE ToString(i) \o ": " \o JoinPairs(LivePairs(i)) \o "\n" \o DumpLines(i + 1)

\* C21: print_map writes bucket_count() lines, one per bucket index from 0
\* up; line i is the index i, ": ", and the live (key, value) pairs of bucket
\* i in chain order with single spaces between them, the index prefix alone
\* for an empty bucket; and the dump does not modify the table.
C21_DumpShowsBuckets ==
    /\ [](op = "print_map" =>
            /\ ub = "none"
            /\ \A i \in DOMAIN _buckets :
                  {heap[n].key : n \in SeqSet(BucketChain(i))}
                      = {k \in LiveKeys : _bucket(k) = i}
            /\ os = DumpLines(0))
    /\ [][op' = "print_map" => UNCHANGED <<data, model>>]_vars

----------------------------------------------------------------------------
\* SpecExample: the iterator example of the header, UnorderedMap<int,
\* std::string> map(5), under any inserts of (key, word) pairs followed by
\* the loop that writes every entry.

\* The hint of the example.
ExampleHint == 5

\* std::string values: the numerals.  A key is inserted with its own numeral
\* or with the numeral of 0.
Words == <<"zero", "one", "two", "three", "four", "five", "six">>

Word(key) == Words[key + 1]

InitExample ==
    /\ _bucket_count = next_greater_prime(ExampleHint)
    /\ _buckets = [i \in 0..(_bucket_count - 1) |-> NULL]
    /\ _head = NULL
    /\ _size = 0
    /\ heap = [n \in {} |-> 0]
    /\ model = [k \in {} |-> 0]
    /\ op = "construct"
    /\ ret = NoRet
    /\ ub = "none"
    /\ arg = NoArg
    /\ NoStream
    /\ NoContainers

\* What the loop for (it = map.begin(); it != map.end(); ++it) writes from
\* the node p on: "Key: " first ", Value: " second and std::endl per entry.
RECURSIVE print_entries(_, _)
print_entries(p, fuel) ==
    IF p = end \/ fuel = 0 THEN ""
    ELSE "Key: " \o ToString(heap[p].key) \o ", Value: " \o heap[p].val \o "\n"
             \o print_entries(iterator_inc(p), fuel - 1)

\* The loop of the example, on a stream nothing has been written to.
example_loop ==
    /\ ub = "none"
    /\ os = ""
    /\ op' = "example_loop"
    /\ os' = print_entries(begin, Fuel)
    /\ ret' = NoRet
    /\ UNCHANGED <<data, model, ub, arg, containers>>

NextExample ==
    \/ \E key \in Keys :
          \E word \in {Word(key), Word(0)} : os = "" /\ insert_rv(key, word)
    \/ example_loop

SpecExample == InitExample /\ [][NextExample]_vars

\* The table of the example: keys 1, 2 and 3 with the values one, two and
\* three, nothing erased (SpecExample has no call that erases).
ExampleTable ==
    /\ _bucket_count = 5
    /\ LiveKeys = {1, 2, 3}
    /\ \A k \in LiveKeys : model[k] = Word(k)

----------------------------------------------------------------------------
\* List<int> of leyk-csce221-assignment-list: a doubly linked list between
\* the two sentinel nodes head and tail, which are members of the List.  The
\* nodes that new hands out are in heap; model is the sequence of the values
\* pushed so far.

\* Bounds: a list holds at most MaxListLen values, which are 0..MaxListVal.
MaxListLen == 4
MaxListVal == 2

ListVals == 0..MaxListVal

\* &head and &tail, which are no addresses of the heap.
addr_head == 0 - 1
addr_tail == 0 - 2

\* A constructor that takes its two pointers the other way round.
Node_swapped(value, prev, next) == [next |-> prev, prev |-> next, data |-> value]

\* Node::Node(const T &data, Node *prev, Node *next)
Node(value, prev, next) == [next |-> next, prev |-> prev, data |-> value]

\* The pointers of the node at the address a.
node_at(a) == IF a = addr_head THEN head ELSE IF a = addr_tail THEN tail ELSE heap[a]

\* new Node: the lowest address not in use.
new_list_node == CHOOSE n \in 1..MaxListLen : n \notin alloc /\ \A m \in 1..(n - 1) : m \in alloc

\* List()
InitList ==
    /\ NoTable
    /\ other = NoOther
    /\ NoStream
    /\ arg = NoArg
    /\ _root = NULL
    /\ c = <<>>
    /\ op = "List"
    /\ head = [next |-> addr_tail, prev |-> NULL]
    /\ tail = [next |-> NULL, prev |-> addr_head]

\* The body of the two push_back overloads.
push_back_body(value) ==
    LET the_new_node == new_list_node
        last == tail.prev
    IN  /\ _size < MaxListLen
        /\ IF last = addr_head
           THEN /\ head' = [head EXCEPT !.next = the_new_node]
                /\ heap' = [n \in alloc \cup {the_new_node} |->
                               IF n = the_new_node THEN Node(value, tail.prev, addr_tail)
                               ELSE heap[n]]
           ELSE /\ head' = head
                /\ heap' = [n \in alloc \cup {the_new_node} |->
                               IF n = the_new_node THEN Node(value, tail.prev, addr_tail)
                               ELSE IF n = last THEN [heap[n] EXCEPT !.next = the_new_node]
                               ELSE heap[n]]
        /\ tail' = [tail EXCEPT !.prev = the_new_node]
        /\ _size' = _size + 1
        /\ model' = Append(model, value)
        /\ ret' = NoRet
        /\ UNCHANGED <<_bucket_count, _buckets, _head, ub, arg, os, _root, c, other>>

\* push_back(const T &value)
push_back(value) ==
    /\ op' = "push_back"
    /\ push_back_body(value)

\* push_back(T &&value)
push_back_rv(value) ==
    /\ op' = "push_back"
    /\ push_back_body(value)

NextList ==
    \/ \E value \in ListVals : push_back(value)
    \/ \E value \in ListVals : push_back_rv(value)

SpecList == InitList /\ [][NextList]_vars

\* The two sentinels and the nodes of the heap as one memory, and the
\* variables after the calls have written mem.
list_mem == [a \in alloc \cup {addr_head, addr_tail} |-> node_at(a)]

list_commit(mem) ==
    /\ head' = mem[addr_head]
    /\ tail' = mem[addr_tail]
    /\ heap' = [n \in DOMAIN mem \ {addr_head, addr_tail} |-> mem[n]]

list_frame == UNCHANGED <<_bucket_count, _buckets, _head, ub, arg, os, _root, c, other>>

\* The values without the one at place i, and with value put before place i.
RemoveAt(s, i) == [j \in 1..(Len(s) - 1) |-> IF j < i THEN s[j] ELSE s[j + 1]]
InsertAt(s, i, value) ==
    [j \in 1..(Len(s) + 1) |-> IF j < i THEN s[j] ELSE IF j = i THEN value ELSE s[j - 1]]

\* The statements of push_front on the memory.
push_front_links(mem, the_new_node, value) ==
    LET made == With(mem, the_new_node, Node(value, addr_head, mem[addr_head].next))
        behind == [made EXCEPT ![made[addr_head].next].prev = the_new_node]
    IN  [behind EXCEPT ![addr_head].next = the_new_node]

\* The body of the two push_front overloads.
push_front_body(value) ==
    /\ _size < MaxListLen
    /\ list_commit(push_front_links(list_mem, new_list_node, value))
    /\ _size' = _size + 1
    /\ model' = <<value>> \o model
    /\ ret' = NoRet
    /\ list_frame

\* push_front(const T &value)
push_front(value) ==
    /\ op' = "push_front"
    /\ push_front_body(value)

\* push_front(T &&value)
push_front_rv(value) ==
    /\ op' = "push_front"
    /\ push_front_body(value)

\* The statements of pop_front on the memory of a list that is not empty.
pop_front_links(mem) ==
    LET temp == mem[addr_head].next
        ahead == [mem EXCEPT ![addr_head].next = mem[temp].next]
        back == [ahead EXCEPT ![ahead[addr_head].next].prev = addr_head]
    IN  Without(back, temp)

\* pop_front()
pop_front ==
    /\ op' = "pop_front"
    /\ IF _size # 0
       THEN /\ list_commit(pop_front_links(list_mem))
            /\ _size' = _size - 1
            /\ model' = Tail(model)
       ELSE UNCHANGED <<head, tail, heap, _size, model>>
    /\ ret' = NoRet
    /\ list_frame

\* A pop_back that leaves the next pointer of the new last node as it was.
pop_back_dangling(mem) ==
    LET temp == mem[addr_tail].prev
        back == [mem EXCEPT ![addr_tail].prev = mem[temp].prev]
    IN  Without(back, temp)

\* The statements of pop_back on the memory of a list that is not empty.
pop_back_links(mem) ==
    LET temp == mem[addr_tail].prev
        back == [mem EXCEPT ![addr_tail].prev = mem[temp].prev]
        ahead == [back EXCEPT ![back[addr_tail].prev].next = addr_tail]
    IN  Without(ahead, temp)

\* pop_back()
pop_back ==
    /\ op' = "pop_back"
    /\ IF _size # 0
       THEN /\ list_commit(pop_back_links(list_mem))
            /\ _size' = _size - 1
            /\ model' = SubSeq(model, 1, Len(model) - 1)
       ELSE UNCHANGED <<head, tail, heap, _size, model>>
    /\ ret' = NoRet
    /\ list_frame

\* clear(): pop_front() while the list is not empty.
RECURSIVE list_cleared(_, _)
list_cleared(mem, size) ==
    IF size = 0 THEN mem ELSE list_cleared(pop_front_links(mem), size - 1)

list_clear ==
    /\ op' = "list_clear"
    /\ list_commit(list_cleared(list_mem, _size))
    /\ _size' = 0
    /\ model' = <<>>
    /\ ret' = NoRet
    /\ list_frame

\* The place in the list of the node that the iterator pos is at, cend()
\* being one past the last.
RECURSIVE place_from(_, _, _)
place_from(a, pos, fuel) ==
    IF a = pos \/ a = addr_tail \/ fuel = 0 THEN 1
    ELSE 1 + place_from(node_at(a).next, pos, fuel - 1)

place(pos) == place_from(head.next, pos, MaxListLen + 1)

\* The statements of insert(pos, value) on the memory.
insert_links(mem, current, the_new_node, value) ==
    LET made == With(mem, the_new_node, Node(value, mem[current].prev, current))
        ahead == [made EXCEPT ![made[current].prev].next = the_new_node]
    IN  [ahead EXCEPT ![current].prev = the_new_node]

\* The body of the two insert overloads, pos being an iterator of the list.
list_insert_body(pos, value) ==
    /\ _size < MaxListLen
    /\ pos \in alloc \cup {addr_tail}
    /\ list_commit(insert_links(list_mem, pos, new_list_node, value))
    /\ _size' = _size + 1
    /\ model' = InsertAt(model, place(pos), value)
    /\ ret' = Ret(new_list_node, FALSE, 0)
    /\ list_frame

\* insert(const_iterator pos, const T &value)
list_insert(pos, value) ==
    /\ op' = "list_insert"
    /\ list_insert_body(pos, value)

\* insert(const_iterator pos, T &&value)
list_insert_rv(pos, value) ==
    /\ op' = "list_insert"
    /\ list_insert_body(pos, value)

\* The statements of erase(pos) on the memory.
erase_links(mem, current) ==
    LET ahead == [mem EXCEPT ![mem[current].prev].next = mem[current].next]
        back == [ahead EXCEPT ![ahead[current].next].prev = ahead[current].prev]
    IN  Without(back, current)

\* erase(const_iterator pos), pos being an iterator at an element.
list_erase(pos) ==
    /\ op' = "list_erase"
    /\ pos \in alloc
    /\ list_commit(erase_links(list_mem, pos))
    /\ _size' = _size - 1
    /\ model' = RemoveAt(model, place(pos))
    /\ ret' = Ret(heap[pos].next, FALSE, 0)
    /\ list_frame

NextListAll ==
    \/ NextList
    \/ \E value \in ListVals : push_front(value)
    \/ \E value \in ListVals : push_front_rv(value)
    \/ pop_front
    \/ pop_back
    \/ \E pos \in 1..MaxListLen \cup {addr_tail}, value \in ListVals : list_insert(pos, value)
    \/ \E pos \in 1..MaxListLen \cup {addr_tail}, value \in ListVals : list_insert_rv(pos, value)
    \/ \E pos \in 1..MaxListLen : list_erase(pos)
    \/ list_clear

SpecListAll == InitList /\ [][NextListAll]_vars

\* cbegin(), cend(), and the steps of an iterator at the node a.
cbegin == head.next

cend == addr_tail

list_inc(a) == node_at(a).next

list_dec(a) == node_at(a).prev

ListFuel == MaxListLen + 1

\* The nodes that for (it = cbegin(); it != cend(); it++) visits, in order.
RECURSIVE forward(_, _)
forward(a, fuel) ==
    IF a = cend \/ fuel = 0 THEN <<>>
    ELSE IF a \notin alloc THEN <<a>>
    ELSE <<a>> \o forward(list_inc(a), fuel - 1)

\* The nodes that while (it != cbegin()) { --it; ... } visits from the
\* iterator a on, in order.
RECURSIVE backward(_, _)
backward(a, fuel) ==
    IF a = cbegin \/ fuel = 0 THEN <<>>
    ELSE IF a # addr_tail /\ a \notin alloc THEN <<>>
    ELSE <<list_dec(a)>> \o backward(list_dec(a), fuel - 1)

\* The values in the nodes of a walk, which are all live nodes.
DataOf(walk) == [i \in 1..Len(walk) |-> heap[walk[i]].data]

Reverse(s) == [i \in 1..Len(s) |-> s[Len(s) + 1 - i]]

\* C23: after push_back(v1), ..., push_back(vn) on an empty List, n >= 0,
\* size() is n, the walk from cbegin() to cend() yields v1, ..., vn, and the
\* walk back with -- from cend() to cbegin() yields vn, ..., v1.
C23_PushBackKeepsOrder ==
    \A there \in {forward(cbegin, ListFuel)}, back \in {backward(cend, ListFuel)} :
        /\ _size = Len(model)
        /\ SeqSet(there) \subseteq alloc
        /\ DataOf(there) = model
        /\ SeqSet(back) \subseteq alloc
        /\ DataOf(back) = Reverse(model)

\* Three values have been pushed, the last two of them different.
C23_Witness ==
    /\ op = "push_back"
    /\ _size = 3
    /\ model[2] # model[3]
    /\ heap[cbegin].data = model[1]

----------------------------------------------------------------------------
\* BinarySearchTree<int, int> of leyk-csce221-assignment-binary-search-tree:
\* _root, _size and the BinaryNode objects in heap.  model is the sequence of
\* the pairs given to insert so far, without those whose key an erase has
\* been called for since.

\* Bounds: keys are 0..MaxTreeKey, and model holds at most MaxInserts pairs.
MaxTreeKey == 2
MaxInserts == 4

TreeKeys == 0..MaxTreeKey

\* Comparator = std::less<K>
comp(a, b) == a < b

\* BinaryNode::BinaryNode(theElement, lt, rt)
BinaryNode(theElement, lt, rt) == [element |-> theElement, left |-> lt, right |-> rt]

\* BinarySearchTree()
InitTree ==
    /\ NoTable
    /\ other = NoOther
    /\ NoStream
    /\ arg = NoArg
    /\ head = [next |-> NULL, prev |-> NULL]
    /\ tail = [next |-> NULL, prev |-> NULL]
    /\ c = <<>>
    /\ op = "BinarySearchTree"
    /\ _root = NULL
    /\ model = <<>>

\* new BinaryNode: the address of the node is the lowest one that is free.
new_tree_node(h) ==
    CHOOSE n \in 1..MaxInserts :
        /\ n \notin DOMAIN h
        /\ \A m \in 1..(n - 1) : m \in DOMAIN h

\* An insert that puts the new node on top of the subtree it was given.
insert_on_top(h, t, x) ==
    [heap |-> [n \in DOMAIN h \cup {new_tree_node(h)} |->
                  IF n = new_tree_node(h) THEN BinaryNode(x, t, NULL) ELSE h[n]],
     t |-> new_tree_node(h),
     added |-> 1]

\* insert(x, t), t being a reference to the pointer that holds the subtree:
\* the heap and the pointer afterwards, and what was added to _size.
RECURSIVE insert_at(_, _, _)
insert_at(h, t, x) ==
    IF t = NULL
    THEN [heap |-> [n \in DOMAIN h \cup {new_tree_node(h)} |->
                       IF n = new_tree_node(h) THEN BinaryNode(x, NULL, NULL) ELSE h[n]],
          t |-> new_tree_node(h),
          added |-> 1]
    ELSE IF comp(x[1], h[t].element[1])
    THEN LET sub == insert_at(h, h[t].left, x)
         IN  [heap |-> [sub.heap EXCEPT ![t].left = sub.t], t |-> t, added |-> sub.added]
    ELSE IF comp(h[t].element[1], x[1])
    THEN LET sub == insert_at(h, h[t].right, x)
         IN  [heap |-> [sub.heap EXCEPT ![t].right = sub.t], t |-> t, added |-> sub.added]
    ELSE [heap |-> [h EXCEPT ![t].element = <<h[t].element[1], x[2]>>],
          t |-> t,
          added |-> 0]

\* The body of the two public insert overloads: insert(x, _root).
tree_insert_body(x) ==
    /\ Len(model) < MaxInserts
    /\ \E done \in {insert_at(heap, _root, x)} :
          /\ heap' = done.heap
          /\ _root' = done.t
          /\ _size' = _size + done.added
    /\ model' = Append(model, x)
    /\ ret' = NoRet
    /\ UNCHANGED <<_bucket_count, _buckets, _head, ub, arg, os, head, tail, c, other>>

\* insert(const_reference x)
tree_insert(x) ==
    /\ op' = "tree_insert"
    /\ tree_insert_body(x)

\* insert(pair && x)
tree_insert_rv(x) ==
    /\ op' = "tree_insert"
    /\ tree_insert_body(x)

NextTree ==
    \/ \E key \in TreeKeys, value \in Vals : tree_insert(<<key, value>>)
    \/ \E key \in TreeKeys, value \in Vals : tree_insert_rv(<<key, value>>)

SpecTree == InitTree /\ [][NextTree]_vars

\* A min(t) that does not descend.
min_at_root(h, t) == t

\* min(t) and max(t): the leftmost and the rightmost node of the subtree.
RECURSIVE min_at(_, _)
min_at(h, t) ==
    IF t = NULL THEN NULL
    ELSE IF h[t].left # NULL THEN min_at(h, h[t].left)
    ELSE t

RECURSIVE max_at(_, _)
max_at(h, t) ==
    IF t = NULL THEN NULL
    ELSE IF h[t].right # NULL THEN max_at(h, h[t].right)
    ELSE t

\* min() and max(), which dereference what min(_root) and max(_root) return.
min == heap[min_at(heap, _root)].element
max == heap[max_at(heap, _root)].element

\* contains(x, t)
RECURSIVE contains_at(_, _, _)
contains_at(h, t, x) ==
    IF t = NULL THEN FALSE
    ELSE IF comp(x, h[t].element[1]) THEN contains_at(h, h[t].left, x)
    ELSE IF comp(h[t].element[1], x) THEN contains_at(h, h[t].right, x)
    ELSE TRUE

\* contains(x)
contains(x) == contains_at(heap, _root, x)

\* An erase that leaves the successor in the right subtree after it has
\* copied it into the node with two children.
RECURSIVE erase_keep_successor(_, _, _)
erase_keep_successor(h, t, x) ==
    IF t = NULL
    THEN [heap |-> h, t |-> NULL, removed |-> 0]
    ELSE IF comp(x, h[t].element[1])
    THEN LET sub == erase_keep_successor(h, h[t].left, x)
         IN  [heap |-> [sub.heap EXCEPT ![t].left = sub.t], t |-> t, removed |-> sub.removed]
    ELSE IF comp(h[t].element[1], x)
    THEN LET sub == erase_keep_successor(h, h[t].right, x)
         IN  [heap |-> [sub.heap EXCEPT ![t].right = sub.t], t |-> t, removed |-> sub.removed]
    ELSE IF h[t].left # NULL /\ h[t].right # NULL
    THEN [heap |-> [h EXCEPT ![t].element = h[min_at(h, h[t].right)].element],
          t |-> t,
          removed |-> 1]
    ELSE [heap |-> [n \in DOMAIN h \ {t} |-> h[n]],
          t |-> IF h[t].left # NULL THEN h[t].left ELSE h[t].right,
          removed |-> 1]

\* erase(x, t), t being a reference to the pointer that holds the subtree:
\* the heap and the pointer afterwards, and what was taken from _size.
RECURSIVE erase_at(_, _, _)
erase_at(h, t, x) ==
    IF t = NULL
    THEN [heap |-> h, t |-> NULL, removed |-> 0]
    ELSE IF comp(x, h[t].element[1])
    THEN LET sub == erase_at(h, h[t].left, x)
         IN  [heap |-> [sub.heap EXCEPT ![t].left = sub.t], t |-> t, removed |-> sub.removed]
    ELSE IF comp(h[t].element[1], x)
    THEN LET sub == erase_at(h, h[t].right, x)
         IN  [heap |-> [sub.heap EXCEPT ![t].right = sub.t], t |-> t, removed |-> sub.removed]
    ELSE IF h[t].left # NULL /\ h[t].right # NULL
    THEN LET moved == [h EXCEPT ![t].element = h[min_at(h, h[t].right)].element]
             sub == erase_at(moved, moved[t].right, moved[t].element[1])
         IN  [heap |-> [sub.heap EXCEPT ![t].right = sub.t], t |-> t, removed |-> sub.removed]
    ELSE [heap |-> [n \in DOMAIN h \ {t} |-> h[n]],
          t |-> IF h[t].left # NULL THEN h[t].left ELSE h[t].right,
          removed |-> 1]

\* erase(const key_type & x): erase(x, _root)
tree_erase(x) ==
    /\ op' = "tree_erase"
    /\ \E done \in {erase_at(heap, _root, x)} :
          /\ heap' = done.heap
          /\ _root' = done.t
          /\ _size' = _size - done.removed
    /\ model' = SelectSeq(model, LAMBDA p : p[1] # x)
    /\ ret' = NoRet
    /\ UNCHANGED <<_bucket_count, _buckets, _head, ub, arg, os, head, tail, c, other>>

NextTreeErase ==
    \/ NextTree
    \/ \E key \in TreeKeys : tree_erase(key)

SpecTreeErase == InitTree /\ [][NextTreeErase]_vars

\* root()
root == IF _root = NULL THEN <<0, DefaultVal>> ELSE heap[_root].element

\* The keys of the pairs given to insert so far are pairwise distinct.
DistinctKeys(pairs) ==
    \A i, j \in 1..Len(pairs) : pairs[i][1] = pairs[j][1] => i = j

\* C24: after inserting a non-empty sequence of pairs with pairwise distinct
\* keys into an empty tree, root() returns the first pair inserted, key and
\* value, whatever the later insertions are.
C24_RootIsFirstInserted ==
    (model # <<>> /\ DistinctKeys(model)) => root = model[1]

\* Three pairs with distinct keys have been inserted, and the first is
\* neither the least nor the greatest of them.
C24_Witness ==
    /\ op = "tree_insert"
    /\ Len(model) = 3
    /\ DistinctKeys(model)
    /\ model[1][2] = OtherVal
    /\ heap[_root].left # NULL
    /\ heap[_root].right # NULL

\* C25: insert of a pair whose key is already in the tree does nothing: the
\* shape of the tree, size() and the value stored for that key are as before
\* the call.
C25_DuplicateInsertDoesNothing ==
    [][\A key \in {heap[n].element[1] : n \in alloc}, value \in Vals :
          (tree_insert(<<key, value>>) \/ tree_insert_rv(<<key, value>>)) =>
              /\ _root' = _root
              /\ _size' = _size
              /\ heap' = heap]_vars

----------------------------------------------------------------------------
\* PriorityQueue<int> of leyk-csce221-assignment-priority-queue: a binary
\* heap in the std::vector c, with Compare = std::less<int> (comp above).
\* c[i] of the code is c[i + 1] here.  model is the multiset of the values
\* pushed and not yet popped: the number of copies of each value it holds.

\* Bounds: a queue holds at most MaxQueue values, which are 0..MaxPrio.
MaxQueue == 4
MaxPrio == 3

Prios == 0..MaxPrio

parent(index) == (index - 1) \div 2

left_child(index) == 2 * index + 1

right_child(index) == 2 * (index + 1)

is_internal(cc, index) == left_child(index) < Len(cc)

\* std::swap(c[i], c[j])
swap(cc, i, j) == [cc EXCEPT ![i + 1] = cc[j + 1], ![j + 1] = cc[i + 1]]

\* An upheap that stops after one step.
upheap_once(cc, index) ==
    IF index > 0 /\ comp(cc[parent(index) + 1], cc[index + 1])
    THEN swap(cc, parent(index), index)
    ELSE cc

RECURSIVE upheap(_, _)
upheap(cc, index) ==
    IF index > 0
    THEN LET p == parent(index)
         IN  IF comp(cc[p + 1], cc[index + 1])
             THEN upheap(swap(cc, p, index), p)
             ELSE cc
    ELSE cc

\* A downheap that looks at the left child only, once.
downheap_left_only(cc, index) ==
    IF is_internal(cc, index) /\ comp(cc[index + 1], cc[left_child(index) + 1])
    THEN swap(cc, index, left_child(index))
    ELSE cc

RECURSIVE downheap(_, _)
downheap(cc, index) ==
    IF is_internal(cc, index)
    THEN LET l == left_child(index)
             r == right_child(index)
             lgst1 == IF l < Len(cc) /\ comp(cc[index + 1], cc[l + 1]) THEN l ELSE index
             lgst == IF r < Len(cc) /\ comp(cc[lgst1 + 1], cc[r + 1]) THEN r ELSE lgst1
         IN  IF lgst # index
             THEN downheap(swap(cc, index, lgst), lgst)
             ELSE cc
    ELSE cc

\* A pop that drops the last element of the array.
popped_last(cc) == IF cc # <<>> THEN SubSeq(cc, 1, Len(cc) - 1) ELSE cc

\* The container after push(value) and after pop().
pushed(cc, value) == upheap(Append(cc, value), Len(cc))

popped(cc) ==
    IF cc # <<>>
    THEN LET moved == [cc EXCEPT ![1] = cc[Len(cc)]]
             shorter == SubSeq(moved, 1, Len(cc) - 1)
         IN  IF shorter # <<>> THEN downheap(shorter, 0) ELSE shorter
    ELSE cc

\* top(), on a queue that is not empty
top(cc) == cc[1]

\* A multiset with one more copy of v, and with one copy less.
Put(bag, v) ==
    [w \in DOMAIN bag \cup {v} |-> IF w = v
                                  THEN (IF v \in DOMAIN bag THEN bag[v] ELSE 0) + 1
                                  ELSE bag[w]]

Take(bag, v) ==
    [w \in {u \in DOMAIN bag : u # v \/ bag[u] > 1} |->
        IF w = v THEN bag[w] - 1 ELSE bag[w]]

\* PriorityQueue()
InitQueue ==
    /\ NoTable
    /\ other = NoOther
    /\ NoStream
    /\ arg = NoArg
    /\ head = [next |-> NULL, prev |-> NULL]
    /\ tail = [next |-> NULL, prev |-> NULL]
    /\ _root = NULL
    /\ op = "PriorityQueue"
    /\ c = <<>>

\* push(const value_type& value)
push(value) ==
    /\ Len(c) < MaxQueue
    /\ op' = "push"
    /\ c' = pushed(c, value)
    /\ model' = Put(model, value)
    /\ UNCHANGED <<data, ret, ub, arg, os, head, tail, _root, other>>

\* push(value_type&& value)
push_rv(value) ==
    /\ Len(c) < MaxQueue
    /\ op' = "push"
    /\ c' = pushed(c, value)
    /\ model' = Put(model, value)
    /\ UNCHANGED <<data, ret, ub, arg, os, head, tail, _root, other>>

\* pop(), which removes what top() returns, and nothing from an empty queue
pop ==
    /\ op' = "pop"
    /\ c' = popped(c)
    /\ model' = IF c # <<>> THEN Take(model, top(c)) ELSE model
    /\ UNCHANGED <<data, ret, ub, arg, os, head, tail, _root, other>>

NextQueue ==
    \/ \E value \in Prios : push(value)
    \/ \E value \in Prios : push_rv(value)
    \/ pop

SpecQueue == InitQueue /\ [][NextQueue]_vars

\* The multiset of the values in the container.
RECURSIVE BagOf(_)
BagOf(cc) == IF cc = <<>> THEN <<>> ELSE Put(BagOf(Tail(cc)), cc[1])

\* C26: after any pushes and pops that leave the queue non-empty, top() is a
\* greatest element, under Compare, of the multiset of the values pushed and
\* not yet popped; and push 10, 20, 5 gives top 20, pop then gives top 10,
\* push 15 then gives top 15.
C26_TopIsGreatest ==
    /\ BagOf(c) = model
    /\ c # <<>> =>
          /\ top(c) \in DOMAIN model
          /\ \A v \in DOMAIN model : ~comp(top(c), v)
    /\ \A first \in {pushed(pushed(pushed(<<>>, 10), 20), 5)} :
          /\ top(first) = 20
          /\ top(popped(first)) = 10
          /\ top(pushed(popped(first), 15)) = 15

\* A pop has left three values in the queue, the greatest of them once.
C26_Witness ==
    /\ op = "pop"
    /\ Len(c) = 3
    /\ comp(c[2], c[1])
    /\ comp(c[3], c[1])
    /\ c[2] # c[3]

----------------------------------------------------------------------------
\* The graph algorithms of leyk-csce221-assignment-graph-algorithms.  A
\* WeightedGraph<int> maps every vertex to its adjacency list, which maps
\* the targets of the vertex's edges to their weights (weighted-graph.hpp and
\* graph-types.h, an adjacency-list graph type): graph[u][v] is the weight of
\* the edge from u to v.

\* Bounds: a graph has at most three vertices, taken from Vertices, and at
\* most MaxEdges edges, whose weights are 0..MaxWeight.
MaxEdges == 3
MaxWeight == 2

Vertices == {1, 2, 3}

Weights == 0..MaxWeight

\* The graph with the vertices V and the weighted edges wt.
Graph(V, wt) ==
    [u \in V |-> [v \in {x \in V : <<u, x>> \in DOMAIN wt} |-> wt[<<u, v>>]]]

\* graph.size(), graph.at(u), and the edges as (u, v) pairs.
graph_size(graph) == Cardinality(DOMAIN graph)

Edges(graph) == {e \in (DOMAIN graph) \X (DOMAIN graph) : e[2] \in DOMAIN graph[e[1]]}

\* The orders in which a loop over an unordered container can visit the
\* elements of S.
Orders(S) ==
    {s \in [1..Cardinality(S) -> S] : \A i, j \in 1..Cardinality(S) : s[i] = s[j] => i = j}

\* A count of the edges that leave a vertex.
computeIndegrees_leaving(graph) ==
    [v \in DOMAIN graph |-> Cardinality(DOMAIN graph[v])]

\* computeIndegrees: for every vertex, the number of edges that enter it.
computeIndegrees(graph) ==
    [v \in DOMAIN graph |-> Cardinality({e \in Edges(graph) : e[2] = v})]

\* The while loop of topologicalSort: the lists it can end with, from the
\* indegrees, the queue q and the list so far.  The for loop over the
\* adjacency list of u takes one off the indegree of every target and
\* enqueues the targets that reach 0, in the order it visits them.
RECURSIVE topological_loop(_, _, _, _)
topological_loop(graph, indegrees, q, topological_order) ==
    IF q = <<>> THEN {topological_order}
    ELSE LET u == Head(q)
             adj_list == DOMAIN graph[u]
             lowered == [v \in DOMAIN indegrees |->
                            IF v \in adj_list THEN indegrees[v] - 1 ELSE indegrees[v]]
             ready == {v \in adj_list : lowered[v] = 0}
         IN  UNION {topological_loop(graph, lowered, Tail(q) \o pushes,
                                     Append(topological_order, u)) :
                        pushes \in Orders(ready)}

\* topologicalSort(graph): the lists it can return.
topologicalSort(graph) ==
    LET indegrees == computeIndegrees(graph)
        lists == UNION {topological_loop(graph, indegrees, q, <<>>) :
                            q \in Orders({v \in DOMAIN indegrees : indegrees[v] = 0})}
    IN  {IF Len(topological_order) # graph_size(graph) THEN <<>> ELSE topological_order :
             topological_order \in lists}

\* A call of a graph algorithm: arg holds the graph.
InitGraph ==
    /\ NoTable
    /\ NoStream
    /\ NoContainers
    /\ op = "none"
    /\ \E V \in SUBSET Vertices :
          \E E \in {F \in SUBSET (V \X V) : Cardinality(F) <= MaxEdges} :
              \E wt \in [E -> Weights] : arg = Graph(V, wt)

call_topologicalSort ==
    /\ op = "none"
    /\ op' = "topologicalSort"
    /\ \E topological_order \in topologicalSort(arg) : ret' = topological_order
    /\ UNCHANGED <<data, model, ub, others>>

\* dijkstras-helpers.h.  infinity<T>(): a weight above every sum of weights
\* of the model.  nullopt is the predecessor of a vertex that has none.
infinity == (MaxEdges + 1) * (MaxWeight + 1)

nullopt == 0

\* initializeSingleSource: the distances and the predecessors at the start.
initializeSingleSource(graph, initial_node) ==
    [distances |-> [v \in DOMAIN graph |-> IF v = initial_node THEN 0 ELSE infinity],
     predecessors |-> [v \in DOMAIN graph |-> nullopt]]

\* A relax that counts every edge as one.
relax_by_hops(u, v, w, d) ==
    IF d.distances[v] > d.distances[u] + 1
    THEN [distances |-> [d.distances EXCEPT ![v] = d.distances[u] + 1],
          predecessors |-> [d.predecessors EXCEPT ![v] = u]]
    ELSE d

\* relax(u, v, w, distances, predecessors): the two maps afterwards.
relax(u, v, w, d) ==
    IF d.distances[v] > d.distances[u] + w
    THEN [distances |-> [d.distances EXCEPT ![v] = d.distances[u] + w],
          predecessors |-> [d.predecessors EXCEPT ![v] = u]]
    ELSE d

\* The for loop over the adjacency list of u: every edge to a vertex outside
\* s is relaxed.  The targets are distinct, so the order does not matter.
RECURSIVE relax_all(_, _, _, _, _)
relax_all(graph, u, targets, s, d) ==
    IF targets = {} THEN d
    ELSE LET v == CHOOSE x \in targets : TRUE
         IN  relax_all(graph, u, targets \ {v}, s,
                       IF v \notin s THEN relax(u, v, graph[u][v], d) ELSE d)

\* The while loop of dijkstrasAlgorithm: the predecessor maps it can end
\* with.  q.top() is a vertex of q at the least distance, any of them when
\* there are several (DijkstraComparator, updateHeap).
RECURSIVE dijkstra_loop(_, _, _, _)
dijkstra_loop(graph, d, s, q) ==
    IF q = {} THEN {d.predecessors}
    ELSE UNION {IF d.distances[u] = infinity THEN {d.predecessors}
                ELSE dijkstra_loop(graph,
                                   relax_all(graph, u, DOMAIN graph[u], s \cup {u}, d),
                                   s \cup {u}, q \ {u}) :
                    u \in {x \in q : \A y \in q : d.distances[x] <= d.distances[y]}}

\* The loop that builds the path back from current, which is not the
\* initial node.
RECURSIVE path_loop(_, _, _, _, _)
path_loop(predecessors, initial_node, current, path, fuel) ==
    IF fuel = 0 \/ predecessors[current] = nullopt THEN <<>>
    ELSE IF predecessors[current] = initial_node
    THEN <<initial_node, current>> \o path
    ELSE path_loop(predecessors, initial_node, predecessors[current],
                   <<current>> \o path, fuel - 1)

\* dijkstrasAlgorithm(graph, initial_node, destination_node): the lists it
\* can return.
dijkstrasAlgorithm(graph, initial_node, destination_node) ==
    {IF initial_node = destination_node THEN <<initial_node>>
     ELSE path_loop(predecessors, initial_node, destination_node, <<>>,
                    graph_size(graph)) :
         predecessors \in dijkstra_loop(graph,
                                        initializeSingleSource(graph, initial_node),
                                        {}, DOMAIN graph)}

call_dijkstrasAlgorithm ==
    /\ op = "none"
    /\ op' = "dijkstrasAlgorithm"
    /\ \E initial_node \in DOMAIN arg, destination_node \in DOMAIN arg :
          \E path \in dijkstrasAlgorithm(arg, initial_node, destination_node) :
              ret' = [initial_node |-> initial_node,
                      destination_node |-> destination_node,
                      path |-> path]
    /\ UNCHANGED <<data, model, ub, others>>

NextGraph ==
    \/ call_topologicalSort
    \/ call_dijkstrasAlgorithm

SpecGraph == InitGraph /\ [][NextGraph]_vars

\* The lists of distinct vertices that follow edges of the graph from u to
\* v, the list of u alone when u = v.
WalksOn(graph) ==
    UNION {{p \in [1..n -> DOMAIN graph] :
               /\ \A i, j \in 1..n : p[i] = p[j] => i = j
               /\ \A i \in 1..(n - 1) : <<p[i], p[i + 1]>> \in Edges(graph)} :
               n \in 1..graph_size(graph)}

PathsBetween(graph, u, v) == {p \in WalksOn(graph) : p[1] = u /\ p[Len(p)] = v}

RECURSIVE TotalWeight(_, _)
TotalWeight(graph, p) ==
    IF Len(p) < 2 THEN 0 ELSE graph[p[1]][p[2]] + TotalWeight(graph, Tail(p))

\* A graph has a cycle when an edge closes a path: v -> u for a path from
\* u to v, which is a self-loop when u = v.
HasCycle(graph) ==
    \E e \in Edges(graph) : PathsBetween(graph, e[2], e[1]) # {}

C28_DijkstraReturnsShortestPath ==
    op = "dijkstrasAlgorithm" =>
        \A paths \in {PathsBetween(arg, ret.initial_node, ret.destination_node)} :
            /\ ret.path = <<>> <=> paths = {}
            /\ paths # {} =>
                  /\ ret.path \in paths
                  /\ \A p \in paths : TotalWeight(arg, ret.path) <= TotalWeight(arg, p)
            /\ ret.initial_node = ret.destination_node => ret.path = <<ret.initial_node>>

\* The path returned has two edges and weighs less than the edge from the
\* initial node to the destination node.
C28_Witness ==
    /\ op = "dijkstrasAlgorithm"
    /\ Len(ret.path) = 3
    /\ <<ret.initial_node, ret.destination_node>> \in Edges(arg)
    /\ TotalWeight(arg, ret.path) < arg[ret.initial_node][ret.destination_node]

----------------------------------------------------------------------------
\* The bucket chains and the nodes of the table.

\* No pointer occurs twice in s.
NoRepeat(s) == \A i, j \in 1..Len(s) : s[i] = s[j] => i = j

\* C31: in every state reached by insert, operator[] and erase, every live
\* node is in exactly one bucket chain, the chain of bucket hash(key) mod
\* bucket_count(), no key occurs in two nodes, and every chain is finite and
\* acyclic: it holds live nodes, none of them twice, and ends in a null link.
C31_NodesAreInTheirOneChain ==
    /\ \A n \in alloc :
          /\ Cardinality({i \in DOMAIN _buckets : n \in SeqSet(BucketChain(i))}) = 1
          /\ n \in SeqSet(BucketChain(_bucket(heap[n].key)))
    /\ \A n, m \in alloc : heap[n].key = heap[m].key => n = m
    /\ \A i \in DOMAIN _buckets :
          \A chain \in {BucketChain(i)} :
              /\ SeqSet(chain) \subseteq alloc
              /\ NoRepeat(chain)
              /\ IF chain = <<>> THEN _buckets[i] = NULL
                 ELSE heap[Last(chain)].next = NULL

\* erase(key) has taken the middle node out of a chain of three.
C31_Witness ==
    /\ op = "erase"
    /\ ub = "none"
    /\ ret.count = 1
    /\ ret.at = 2
    /\ ret.len = 3
    /\ \E i \in DOMAIN _buckets : Len(BucketChain(i)) = 2

----------------------------------------------------------------------------
\* The heap order of the PriorityQueue and what pop removes.

\* C38: after every push and every pop, the array is a max-heap: for every
\* index i > 0, the element at the parent index (i - 1) / 2 is not less,
\* under Compare, than the element at i.
C38_ArrayIsMaxHeap ==
    \A i \in 1..(Len(c) - 1) : ~comp(c[parent(i) + 1], c[i + 1])

\* A push has filled the fourth place of the array, below a parent that is
\* greater, and the two children of the root differ.
C38_Witness ==
    /\ op = "push"
    /\ Len(c) >= 4
    /\ comp(c[4], c[2])
    /\ c[2] # c[3]

\* C39: pop() on a queue that is not empty removes one occurrence of the
\* element that top() returned and keeps every other element, so size()
\* goes down by one and the next top() is not greater than the element
\* removed: popping until the queue is empty yields the elements in
\* non-increasing order.  pop() on an empty queue changes nothing.
C39_PopRemovesTop ==
    [][op' = "pop" =>
          IF c = <<>>
          THEN c' = c
          ELSE /\ BagOf(c') = Take(BagOf(c), top(c))
               /\ Len(c') = Len(c) - 1
               /\ c' # <<>> => ~comp(top(c), top(c'))]_vars

\* A pop has left two different elements in the queue, the greater one on
\* top.
C39_Witness ==
    /\ op = "pop"
    /\ Len(c) = 2
    /\ comp(c[2], c[1])
    /\ c[1] \in DOMAIN model
    /\ Cardinality(DOMAIN model) = 2
    /\ ret = NoRet

----------------------------------------------------------------------------
\* The order of the BinarySearchTree under insert and erase.

\* The nodes of the subtree t.
RECURSIVE Subtree(_, _)
Subtree(h, t) ==
    IF t = NULL THEN {}
    ELSE {t} \cup Subtree(h, h[t].left) \cup Subtree(h, h[t].right)

KeysOf(h, t) == {h[n].element[1] : n \in Subtree(h, t)}

\* The keys that have been inserted and not erased since, and the value that
\* the last insert of such a key gave.
StoredKeys == {model[i][1] : i \in 1..Len(model)}
StoredValue(k) ==
    model[CHOOSE i \in 1..Len(model) :
              /\ model[i][1] = k
              /\ \A j \in (i + 1)..Len(model) : model[j][1] # k][2]

\* C36: for a tree that is not empty, reached by any sequence of insert and
\* erase calls, min() returns the pair with the smallest key among the keys
\* currently stored, which is in the leftmost node, and max() the pair with
\* the largest key.
C36_MinAndMaxAreTheExtremes ==
    _root # NULL =>
        /\ StoredKeys # {}
        /\ min[1] \in StoredKeys /\ \A k \in StoredKeys : min[1] <= k
        /\ max[1] \in StoredKeys /\ \A k \in StoredKeys : k <= max[1]
        /\ min[2] = StoredValue(min[1])
        /\ max[2] = StoredValue(max[1])

\* An erase has left two keys in the tree, the smaller one below the
\* greater one, and the two hold different values.
C36_Witness ==
    /\ op = "tree_erase"
    /\ _size = 2
    /\ heap[_root].left # NULL
    /\ min[2] # max[2]
    /\ max = root

\* C37: after any sequence of insert and erase calls, every node's key is
\* greater than all keys of its left subtree and less than all keys of its
\* right subtree, no key occurs twice, size() is the number of nodes, and
\* contains(k) is true exactly for the keys inserted and not erased since.
C37_TreeIsOrdered ==
    /\ \A n \in Subtree(heap, _root) :
          /\ \A k \in KeysOf(heap, heap[n].left) : comp(k, heap[n].element[1])
          /\ \A k \in KeysOf(heap, heap[n].right) : comp(heap[n].element[1], k)
    /\ \A n, m \in alloc : heap[n].element[1] = heap[m].element[1] => n = m
    /\ Subtree(heap, _root) = alloc
    /\ _size = Cardinality(alloc)
    /\ \A k \in TreeKeys : contains(k) <=> k \in StoredKeys

\* An erase has taken the middle key of three from the root, which has kept
\* a node on its left.
C37_Witness ==
    /\ op = "tree_erase"
    /\ StoredKeys = {0, MaxTreeKey}
    /\ root[1] = MaxTreeKey
    /\ _size = 2
    /\ ~contains(1)

----------------------------------------------------------------------------
\* The links of the List under all of its mutators.

\* The chain between the sentinels is linked both ways, holds live nodes
\* only and all of them, and size() is their number.
ListLinked ==
    \A there \in {forward(cbegin, ListFuel)} :
        /\ SeqSet(there) = alloc
        /\ NoRepeat(there)
        /\ _size = Len(there)
        /\ head.next \in alloc \cup {addr_tail}
        /\ node_at(head.next).prev = addr_head
        /\ tail.prev \in alloc \cup {addr_head}
        /\ node_at(tail.prev).next = addr_tail
        /\ \A n \in alloc :
              /\ heap[n].next \in alloc \cup {addr_tail}
              /\ node_at(heap[n].next).prev = n
              /\ heap[n].prev \in alloc \cup {addr_head}
              /\ node_at(heap[n].prev).next = n
        /\ DataOf(there) = model
        /\ (cbegin = cend) <=> (_size = 0)

\* C35: after any sequence of push_back, push_front, pop_back, pop_front,
\* insert(pos), erase(pos) and clear, the nodes between the two sentinels
\* form a consistent doubly linked chain (n.next.prev == n and
\* n.prev.next == n for every node and sentinel link), size() is the number
\* of nodes between the sentinels, begin() == end() exactly when
\* size() == 0, and pop_front and pop_back on an empty list change nothing.
C35_ListStaysLinked ==
    /\ ListLinked
    /\ [][/\ ListLinked'
          /\ (op' \in {"pop_front", "pop_back"} /\ _size = 0) =>
                UNCHANGED <<head, tail, heap, _size>>]_vars

\* An erase in the middle of the list has left three nodes, and the back of
\* the list holds a value that the front does not.
C35_Witness ==
    /\ op = "list_erase"
    /\ _size = 3
    /\ ret.node \in alloc
    /\ heap[ret.node].prev # addr_head
    /\ heap[tail.prev].data # heap[head.next].data

----------------------------------------------------------------------------
\* Who allocates and who frees the nodes of the table.

\* C32: nodes are allocated only by an insert or operator[] that adds a new
\* key, one node a call, and are freed only by the erase that removes them,
\* by clear or by destruction; in every state the number of nodes allocated
\* and not freed is size(), and it is zero after destruction; and the
\* inserts, the clears and the destruction of a run free no node twice and
\* touch no freed node, so that each of them is defined.
C32_NodesFreedOnce ==
    /\ Cardinality(alloc) = _size
    /\ op = "destructor" /\ ub = "none" => alloc = {}
    /\ [][/\ \A made \in {alloc' \ alloc} :
                made # {} =>
                    /\ op' \in {"insert", "subscript"}
                    /\ Cardinality(made) = 1
                    /\ \A n \in made : heap'[n].key \notin DOMAIN model
          /\ \A gone \in {alloc \ alloc'} :
                gone # {} =>
                    /\ op' \in {"erase", "erase_pos", "clear", "destructor"}
                    /\ op' \in {"erase", "erase_pos"} => Cardinality(gone) = 1
          /\ Cardinality(alloc') = _size'
          /\ op' = "destructor" /\ ub' = "none" => alloc' = {}
          /\ op' \in {"insert", "clear", "destructor"} => ub' = "none"]_vars

----------------------------------------------------------------------------
\* Copies and moves of the table.

\* The nodes of the table t on the heap h, bucket after bucket, the pairs
\* they hold, and the head that the canonical head invariant asks for.
NodesOf(h, t) == all_chains(h, t._buckets, 0, t._bucket_count)

PairsOf(h, walk) == [i \in 1..Len(walk) |-> <<h[walk[i]].key, h[walk[i]].val>>]

CanonicalHead(h, t) ==
    \A walk \in {NodesOf(h, t)} :
        t._head = IF walk = <<>> THEN NULL ELSE walk[1]

\* C33: copy-constructing or copy-assigning from a source reached by inserts
\* and erases gives a table with the same bucket_count(), the same size()
\* and the same key-to-value mapping, whose head is the canonical one and
\* whose every chain is the chain of the source in reverse order; the source
\* is unchanged, the two tables share no node, and a later insert or erase
\* on one table leaves the other table and its nodes as they were.
C33_CopyIsDeepAndReversed ==
    [][/\ (op' \in {"copy_construct", "copy_assign"} /\ ub' = "none") =>
            \A source \in {IF op' = "copy_construct" THEN this ELSE other} :
                /\ other' = source
                /\ \A n \in SeqSet(NodesOf(heap, source)) :
                      n \in alloc' /\ heap'[n] = heap[n]
                /\ _bucket_count' = source._bucket_count
                /\ _size' = source._size
                /\ _size' = Len(NodesOf(heap', this'))
                /\ SeqSet(PairsOf(heap', NodesOf(heap', this')))
                      = SeqSet(PairsOf(heap, NodesOf(heap, source)))
                /\ CanonicalHead(heap', this')
                /\ \A i \in DOMAIN _buckets' :
                      PairsOf(heap', Chain(heap', _buckets'[i], Fuel))
                          = Reverse(PairsOf(heap, Chain(heap, source._buckets[i], Fuel)))
                /\ SeqSet(NodesOf(heap', this')) \cap SeqSet(NodesOf(heap, source)) = {}
                /\ SeqSet(NodesOf(heap', this')) \subseteq alloc'
       /\ (op' \in {"insert", "erase"} /\ other # NoOther) =>
             /\ other' = other
             /\ \A n \in SeqSet(NodesOf(heap, other)) :
                   n \in alloc' /\ heap'[n] = heap[n]]_vars

\* A copy assignment has made a table with two nodes in one chain, from a
\* source that holds a value other than the default one.
C33_Witness ==
    /\ op = "copy_assign"
    /\ ub = "none"
    /\ \E i \in DOMAIN _buckets : Len(BucketChain(i)) = 2
    /\ \E n \in SeqSet(NodesOf(heap, other)) : heap[n].val = OtherVal
    /\ Cardinality(alloc) = 4

\* C34: move-constructing or move-assigning hands all the nodes of the
\* source over as they are (same chains, same head, same size, same bucket
\* count) and leaves the source a valid empty table: size() == 0,
\* begin() == end(), every bucket empty, bucket_count() unchanged, and an
\* insert on it makes a table of one node.
C34_MoveHandsNodesOver ==
    [][(op' \in {"move_construct", "move_assign"} /\ ub' = "none") =>
          \A source \in {IF op' = "move_construct" THEN this ELSE other} :
              /\ this' = source
              /\ \A n \in SeqSet(NodesOf(heap, source)) :
                    n \in alloc' /\ heap'[n] = heap[n]
              /\ SeqSet(NodesOf(heap', this')) = alloc'
              /\ other'._size = 0
              /\ other'._head = end
              /\ other'._bucket_count = source._bucket_count
              /\ DOMAIN other'._buckets = DOMAIN source._buckets
              /\ \A i \in DOMAIN other'._buckets : other'._buckets[i] = NULL
              /\ \A key \in Keys :
                    Nodes \ alloc' # {} =>
                        \A done \in {insert_into(heap', other', key, OtherVal)} :
                            /\ done.table._size = 1
                            /\ CanonicalHead(done.heap, done.table)
                            /\ PairsOf(done.heap, NodesOf(done.heap, done.table))
                                  = <<(<<key, OtherVal>>)>>]_vars

\* A move assignment has handed over a table with two nodes in one chain and
\* has left the source empty.
C34_Witness ==
    /\ op = "move_assign"
    /\ ub = "none"
    /\ \E i \in DOMAIN _buckets : Len(BucketChain(i)) = 2
    /\ other._size = 0
    /\ other._buckets = new_buckets(_bucket_count)
    /\ \E n \in alloc : heap[n].val = OtherVal

============================================================================
